---- MODULE Spec2Model ----
(***************************************************************************)
(* College suggester backend: the category-pattern resolution and the      *)
(* cutoff query of app/apis/college_suggestion.py, and the three route     *)
(* handlers of app/routes.py that answer with its result; the branch       *)
(* normalizer of app/utils/branch_normalizer.py, called alone and from     *)
(* several threads on one instance; the /available-branches route; and the *)
(* self-or-admin guard of the /users/{user_id} routes.                     *)
(*                                                                         *)
(* A Python str is modelled as a sequence of one-character strings, so     *)
(* that upper(), strip(), concatenation and SQL LIKE are computed          *)
(* character by character.                                                 *)
(***************************************************************************)
EXTENDS Integers, Sequences, FiniteSets, Bags, TLC

VARIABLES
    cutoffs,            \* the cutoffs table joined with colleges: a bag of rows
    request,            \* the arguments of the last handled request
    category_patterns,  \* local category_patterns of the last call
    level_filter,       \* the level the last call filtered on, or None
    colleges,           \* the rows the last call returned, in order
    raised,             \* the exception the query function raised, or None
    status,             \* HTTP status the route answered with (0: no request yet)
    normalizer,         \* the BranchNormalizer instance in use, or None
    threads,            \* the frame of every thread that calls into the instance
    remembered,         \* one call that has returned earlier, or NoCall
    ranked_colleges,    \* the ranked_colleges table: its branch column
    available_branches, \* the body /available-branches answered with, or None
    users,              \* the users table: id -> row
    user_response,      \* the answer of the last /users/{user_id} request, or NoResponse
    parser,             \* extract_cutoffs_from_pdf: its locals, its session, its position
    college_table,      \* the colleges table: id -> row
    document,           \* what the lines of the PDF read so far say
    role_table,         \* the roles table: id -> row, with the role's permissions
    tokens              \* the access tokens issued and not expired: the sub of each

\* The state the category routes work on.
query_vars == <<cutoffs, request, category_patterns, level_filter, colleges, raised, status>>

\* The state of the branch normalizer and of its callers.
normalizer_vars == <<normalizer, threads, remembered>>

\* The state of the user routes.
user_vars == <<users, user_response>>

\* The state of the ingestion of a cutoff PDF.
ingest_vars == <<parser, college_table, document>>

\* The state of authentication and authorization besides the users table.
auth_vars == <<role_table, tokens>>

vars == <<cutoffs, request, category_patterns, level_filter, colleges, raised, status,
          normalizer, threads, remembered, ranked_colleges, available_branches,
          users, user_response, parser, college_table, document, role_table, tokens>>

----------------------------------------------------------------------------
(* Strings *)

\* Python None: a value that is no string (every character is one letter long).
None == <<"None">>

\* SQL NULL in the nullable integer column cutoffs.rank.
NULL == -1

LowerChars == <<"a","b","c","d","e","f","g","h","i","j","k","l","m",
                "n","o","p","q","r","s","t","u","v","w","x","y","z">>
UpperChars == <<"A","B","C","D","E","F","G","H","I","J","K","L","M",
                "N","O","P","Q","R","S","T","U","V","W","X","Y","Z">>

\* The characters str.strip() removes.
Whitespace == {" ", "\t", "\n", "\r"}

\* The upper-case letter of every lower-case letter, and the reverse.
ToUpper == [c \in {LowerChars[i] : i \in 1..26} |->
               UpperChars[CHOOSE i \in 1..26 : LowerChars[i] = c]]

ToLower == [c \in {UpperChars[i] : i \in 1..26} |->
               LowerChars[CHOOSE i \in 1..26 : UpperChars[i] = c]]

UpperChar(c) == IF c \in DOMAIN ToUpper THEN ToUpper[c] ELSE c

LowerChar(c) == IF c \in DOMAIN ToLower THEN ToLower[c] ELSE c

\* str.upper()
upper(s) == [i \in 1..Len(s) |-> UpperChar(s[i])]

\* what ILIKE compares: both sides folded to lower case
lower(s) == [i \in 1..Len(s) |-> LowerChar(s[i])]

RECURSIVE lstrip(_)
lstrip(s) == IF s # <<>> /\ Head(s) \in Whitespace THEN lstrip(Tail(s)) ELSE s

RECURSIVE rstrip(_)
rstrip(s) ==
    IF s # <<>> /\ s[Len(s)] \in Whitespace THEN rstrip(SubSeq(s, 1, Len(s) - 1)) ELSE s

\* str.strip()
strip(s) == rstrip(lstrip(s))

\* Python truthiness of an Optional[str]: None and "" are false.
Truthy(s) == s # None /\ s # <<>>

\* PostgreSQL "s LIKE p": % matches any run of characters, _ any one character,
\* every other character itself (case-sensitively).  The whole of s must match.
RECURSIVE Like(_, _)
Like(s, p) ==
    IF p = <<>> THEN s = <<>>
    ELSE IF Head(p) = "%"
         THEN Like(s, Tail(p)) \/ (s # <<>> /\ Like(Tail(s), p))
    ELSE IF s = <<>> THEN FALSE
    ELSE (Head(p) = "_" \/ Head(p) = Head(s)) /\ Like(Tail(s), Tail(p))

\* PostgreSQL "s ILIKE p"
ILike(s, p) == Like(lower(s), lower(p))

\* Column.like(f"%{pattern}%")
LikeContains(s, pattern) == Like(s, <<"%">> \o pattern \o <<"%">>)

\* Column.contains(x): rendered as  LIKE '%' || x || '%'  with no escaping
ColumnContains(s, x) == Like(s, <<"%">> \o x \o <<"%">>)

\* Column.ilike(f"%{x}%")
ILikeContains(s, x) == ILike(s, <<"%">> \o x \o <<"%">>)

----------------------------------------------------------------------------
(* String literals of college_suggestion.py *)

s_H == <<"H">>
s_O == <<"O">>
s_S == <<"S">>
s_AI == <<"A", "I">>
s_home == <<"h", "o", "m", "e">>
s_other == <<"o", "t", "h", "e", "r">>
s_state == <<"s", "t", "a", "t", "e">>
s_all_india == <<"a", "l", "l", " ", "i", "n", "d", "i", "a">>
s_MALE == <<"M", "A", "L", "E">>
s_G == <<"G">>
s_L == <<"L">>
s_PWD == <<"P", "W", "D">>
s_PWDR == <<"P", "W", "D", "R">>
s_DEFENCE == <<"D", "E", "F", "E", "N", "C", "E">>
s_DEF == <<"D", "E", "F">>
s_DEFR == <<"D", "E", "F", "R">>
s_ORPHAN == <<"O", "R", "P", "H", "A", "N">>
s_TFWS == <<"T", "F", "W", "S">>

----------------------------------------------------------------------------
(* get_suggested_colleges: category resolution *)

\* caste.upper().strip(), gender.upper().strip(), seat_type.upper().strip()
Normalize(s) == strip(upper(s))

seat_type_mapping ==
    (s_H :> s_home) @@ (s_O :> s_other) @@ (s_S :> s_state) @@ (s_AI :> s_all_india)

\* LevelFilter with the default of seat_type_code_mapping.get applied to the
\* level as well
LevelFilter_default_state(seat_type) ==
    IF seat_type \in DOMAIN seat_type_mapping THEN seat_type_mapping[seat_type] ELSE s_state

\* the level the query filters on: seat_type_mapping[seat_type] when
\* seat_type in seat_type_mapping, otherwise no filter is added
LevelFilter(seat_type) ==
    IF seat_type \in DOMAIN seat_type_mapping THEN seat_type_mapping[seat_type] ELSE None

\* gender_code with the comparison made against the lower-case spelling
gender_code_lowercase(gender) == IF gender = <<"m", "a", "l", "e">> THEN s_G ELSE s_L

gender_code(gender) == IF gender = s_MALE THEN s_G ELSE s_L

seat_type_code_mapping ==
    (s_H :> s_H) @@ (s_O :> s_O) @@ (s_S :> s_S) @@ (s_AI :> s_AI)

\* seat_type_code_mapping.get(seat_type, "S")
seat_type_code(seat_type) ==
    IF seat_type \in DOMAIN seat_type_code_mapping
    THEN seat_type_code_mapping[seat_type]
    ELSE s_S

\* special_reservation.upper(): upper-cased, not stripped
special_code(special_reservation) == upper(special_reservation)

\* CategoryPatterns without the PWDR spelling
CategoryPatterns_pwd_single(caste, gender, seat_type, special_reservation) ==
    IF Truthy(special_reservation)
    THEN IF special_code(special_reservation) = s_PWD
         THEN << s_PWD \o caste \o seat_type_code(seat_type) >>
         ELSE IF special_code(special_reservation) = s_DEFENCE
         THEN << s_DEFR \o caste \o seat_type_code(seat_type),
                 s_DEF \o caste \o seat_type_code(seat_type) >>
         ELSE IF special_code(special_reservation) = s_ORPHAN
         THEN << s_ORPHAN >>
         ELSE IF special_code(special_reservation) = s_TFWS
         THEN << s_TFWS >>
         ELSE << special_code(special_reservation) \o caste \o seat_type_code(seat_type) >>
    ELSE << gender_code(gender) \o caste \o seat_type_code(seat_type) >>

\* CategoryPatterns with DEF before DEFR
CategoryPatterns_def_first(caste, gender, seat_type, special_reservation) ==
    IF Truthy(special_reservation)
    THEN IF special_code(special_reservation) = s_PWD
         THEN << s_PWD \o caste \o seat_type_code(seat_type),
                 s_PWDR \o caste \o seat_type_code(seat_type) >>
         ELSE IF special_code(special_reservation) = s_DEFENCE
         THEN << s_DEF \o caste \o seat_type_code(seat_type),
                 s_DEFR \o caste \o seat_type_code(seat_type) >>
         ELSE IF special_code(special_reservation) = s_ORPHAN
         THEN << s_ORPHAN >>
         ELSE IF special_code(special_reservation) = s_TFWS
         THEN << s_TFWS >>
         ELSE << special_code(special_reservation) \o caste \o seat_type_code(seat_type) >>
    ELSE << gender_code(gender) \o caste \o seat_type_code(seat_type) >>

\* CategoryPatterns with ORPHAN built like the other reservation codes
CategoryPatterns_orphan_with_caste(caste, gender, seat_type, special_reservation) ==
    IF Truthy(special_reservation)
    THEN IF special_code(special_reservation) = s_PWD
         THEN << s_PWD \o caste \o seat_type_code(seat_type),
                 s_PWDR \o caste \o seat_type_code(seat_type) >>
         ELSE IF special_code(special_reservation) = s_DEFENCE
         THEN << s_DEFR \o caste \o seat_type_code(seat_type),
                 s_DEF \o caste \o seat_type_code(seat_type) >>
         ELSE IF special_code(special_reservation) = s_ORPHAN
         THEN << s_ORPHAN \o caste \o seat_type_code(seat_type) >>
         ELSE IF special_code(special_reservation) = s_TFWS
         THEN << s_TFWS >>
         ELSE << special_code(special_reservation) \o caste \o seat_type_code(seat_type) >>
    ELSE << gender_code(gender) \o caste \o seat_type_code(seat_type) >>

\* CategoryPatterns with no pattern for a reservation code it does not know
CategoryPatterns_unknown_dropped(caste, gender, seat_type, special_reservation) ==
    IF Truthy(special_reservation)
    THEN IF special_code(special_reservation) = s_PWD
         THEN << s_PWD \o caste \o seat_type_code(seat_type),
                 s_PWDR \o caste \o seat_type_code(seat_type) >>
         ELSE IF special_code(special_reservation) = s_DEFENCE
         THEN << s_DEFR \o caste \o seat_type_code(seat_type),
                 s_DEF \o caste \o seat_type_code(seat_type) >>
         ELSE IF special_code(special_reservation) = s_ORPHAN
         THEN << s_ORPHAN >>
         ELSE IF special_code(special_reservation) = s_TFWS
         THEN << s_TFWS >>
         ELSE << >>
    ELSE << gender_code(gender) \o caste \o seat_type_code(seat_type) >>

\* caste, gender, seat_type are the normalized inputs; special_reservation is
\* the argument as given.
CategoryPatterns(caste, gender, seat_type, special_reservation) ==
    IF Truthy(special_reservation)
    THEN IF special_code(special_reservation) = s_PWD
         THEN << s_PWD \o caste \o seat_type_code(seat_type),
                 s_PWDR \o caste \o seat_type_code(seat_type) >>
         ELSE IF special_code(special_reservation) = s_DEFENCE
         THEN << s_DEFR \o caste \o seat_type_code(seat_type),
                 s_DEF \o caste \o seat_type_code(seat_type) >>
         ELSE IF special_code(special_reservation) = s_ORPHAN
         THEN << s_ORPHAN >>
         ELSE IF special_code(special_reservation) = s_TFWS
         THEN << s_TFWS >>
         ELSE << special_code(special_reservation) \o caste \o seat_type_code(seat_type) >>
    ELSE << gender_code(gender) \o caste \o seat_type_code(seat_type) >>

----------------------------------------------------------------------------
(* get_college_details_by_rank: the same resolution, written out again *)

details_seat_type_mapping ==
    (s_H :> s_home) @@ (s_O :> s_other) @@ (s_S :> s_state) @@ (s_AI :> s_all_india)

DetailsLevelFilter(seat_type) ==
    IF seat_type \in DOMAIN details_seat_type_mapping
    THEN details_seat_type_mapping[seat_type]
    ELSE None

details_gender_code(gender) == IF gender = s_MALE THEN s_G ELSE s_L

details_seat_type_code_mapping ==
    (s_H :> s_H) @@ (s_O :> s_O) @@ (s_S :> s_S) @@ (s_AI :> s_AI)

details_seat_type_code(seat_type) ==
    IF seat_type \in DOMAIN details_seat_type_code_mapping
    THEN details_seat_type_code_mapping[seat_type]
    ELSE s_S

DetailsCategoryPatterns(caste, gender, seat_type, special_reservation) ==
    IF Truthy(special_reservation)
    THEN IF upper(special_reservation) = s_PWD
         THEN << s_PWD \o caste \o details_seat_type_code(seat_type),
                 s_PWDR \o caste \o details_seat_type_code(seat_type) >>
         ELSE IF upper(special_reservation) = s_DEFENCE
         THEN << s_DEFR \o caste \o details_seat_type_code(seat_type),
                 s_DEF \o caste \o details_seat_type_code(seat_type) >>
         ELSE IF upper(special_reservation) = s_ORPHAN
         THEN << s_ORPHAN >>
         ELSE IF upper(special_reservation) = s_TFWS
         THEN << s_TFWS >>
         ELSE << upper(special_reservation) \o caste \o details_seat_type_code(seat_type) >>
    ELSE << details_gender_code(gender) \o caste \o details_seat_type_code(seat_type) >>

\* Common branch abbreviations to full names (local dict of
\* get_college_details_by_rank)
branch_mappings ==
     (<<"C", "S">> :> <<<<"C", "o", "m", "p", "u", "t", "e", "r", " ", "S", "c", "i", "e", "n", "c", "e">>,
          <<"C", "o", "m", "p", "u", "t", "e", "r", " ", "S", "c", "i", "e", "n", "c", "e", " ", "a", "n", "d", " ", "E", "n", "g", "i", "n", "e", "e", "r", "i", "n", "g">>>>) @@
     (<<"I", "T">> :> <<<<"I", "n", "f", "o", "r", "m", "a", "t", "i", "o", "n", " ", "T", "e", "c", "h", "n", "o", "l", "o", "g", "y">>>>) @@
     (<<"E", "C", "E">> :> <<<<"E", "l", "e", "c", "t", "r", "o", "n", "i", "c", "s", " ", "a", "n", "d", " ", "C", "o", "m", "m", "u", "n", "i", "c", "a", "t", "i", "o", "n">>,
          <<"E", "l", "e", "c", "t", "r", "o", "n", "i", "c", "s", " ", "a", "n", "d", " ", "T", "e", "l", "e", "c", "o", "m", "m", "u", "n", "i", "c", "a", "t", "i", "o", "n">>>>) @@
     (<<"E", "N", "T", "C">> :> <<<<"E", "l", "e", "c", "t", "r", "o", "n", "i", "c", "s", " ", "a", "n", "d", " ", "T", "e", "l", "e", "c", "o", "m", "m", "u", "n", "i", "c", "a", "t", "i", "o", "n">>,
          <<"E", "l", "e", "c", "t", "r", "o", "n", "i", "c", "s", " ", "a", "n", "d", " ", "C", "o", "m", "m", "u", "n", "i", "c", "a", "t", "i", "o", "n">>>>) @@
     (<<"M", "E", "C", "H">> :> <<<<"M", "e", "c", "h", "a", "n", "i", "c", "a", "l", " ", "E", "n", "g", "i", "n", "e", "e", "r", "i", "n", "g">>,
          <<"M", "e", "c", "h", "a", "n", "i", "c", "a", "l">>>>) @@
     (<<"C", "I", "V", "I", "L">> :> <<<<"C", "i", "v", "i", "l", " ", "E", "n", "g", "i", "n", "e", "e", "r", "i", "n", "g">>,
          <<"C", "i", "v", "i", "l">>>>) @@
     (<<"E", "E", "E">> :> <<<<"E", "l", "e", "c", "t", "r", "i", "c", "a", "l", " ", "E", "n", "g", "i", "n", "e", "e", "r", "i", "n", "g">>,
          <<"E", "l", "e", "c", "t", "r", "i", "c", "a", "l", " ", "a", "n", "d", " ", "E", "l", "e", "c", "t", "r", "o", "n", "i", "c", "s">>>>) @@
     (<<"E", "L", "E", "C", "T", "R", "I", "C", "A", "L">> :> <<<<"E", "l", "e", "c", "t", "r", "i", "c", "a", "l", " ", "E", "n", "g", "i", "n", "e", "e", "r", "i", "n", "g">>,
          <<"E", "l", "e", "c", "t", "r", "i", "c", "a", "l", " ", "a", "n", "d", " ", "E", "l", "e", "c", "t", "r", "o", "n", "i", "c", "s">>>>) @@
     (<<"C", "H", "E", "M", "I", "C", "A", "L">> :> <<<<"C", "h", "e", "m", "i", "c", "a", "l", " ", "E", "n", "g", "i", "n", "e", "e", "r", "i", "n", "g">>,
          <<"C", "h", "e", "m", "i", "c", "a", "l">>>>) @@
     (<<"B", "I", "O", "T", "E", "C", "H">> :> <<<<"B", "i", "o", "t", "e", "c", "h", "n", "o", "l", "o", "g", "y">>,
          <<"B", "i", "o", "m", "e", "d", "i", "c", "a", "l", " ", "E", "n", "g", "i", "n", "e", "e", "r", "i", "n", "g">>>>) @@
     (<<"A", "U", "T", "O", "M", "O", "B", "I", "L", "E">> :> <<<<"A", "u", "t", "o", "m", "o", "b", "i", "l", "e", " ", "E", "n", "g", "i", "n", "e", "e", "r", "i", "n", "g">>,
          <<"A", "u", "t", "o", "m", "o", "t", "i", "v", "e">>>>) @@
     (<<"P", "R", "O", "D", "U", "C", "T", "I", "O", "N">> :> <<<<"P", "r", "o", "d", "u", "c", "t", "i", "o", "n", " ", "E", "n", "g", "i", "n", "e", "e", "r", "i", "n", "g">>,
          <<"M", "a", "n", "u", "f", "a", "c", "t", "u", "r", "i", "n", "g">>>>) @@
     (<<"I", "N", "S", "T", "R", "U", "M", "E", "N", "T", "A", "T", "I", "O", "N">> :> <<<<"I", "n", "s", "t", "r", "u", "m", "e", "n", "t", "a", "t", "i", "o", "n", " ", "E", "n", "g", "i", "n", "e", "e", "r", "i", "n", "g">>,
          <<"I", "n", "s", "t", "r", "u", "m", "e", "n", "t", "a", "t", "i", "o", "n">>>>)

----------------------------------------------------------------------------
(* The query *)

\* Cutoff.rank >= rank, Cutoff.rank IS NOT NULL: a comparison with NULL is
\* not true
RankFilter(row, rank) == row.rank # NULL /\ row.rank >= rank /\ row.rank # NULL

\* query.filter(Cutoff.level.contains(seat_type_mapping[seat_type])), added
\* only when seat_type is a key of the mapping
LevelCondition(row, lf) == lf = None \/ ColumnContains(row.level, lf)

\* or_(*[Cutoff.category.like(f"%{pattern}%") for pattern in category_patterns]),
\* added only when the list is non-empty
CategoryCondition(row, patterns) ==
    patterns = <<>> \/ \E i \in 1..Len(patterns) : LikeContains(row.category, patterns[i])

\* College.name.contains(college_name), added only when college_name is truthy
CollegeCondition(row, college_name) ==
    ~Truthy(college_name) \/ ColumnContains(row.college, college_name)

\* or_(Cutoff.branch.ilike(f"%{branch}%"), then one ilike per full name of
\* branch_mappings[branch.upper()]), added only when branch is truthy
BranchCondition(row, branch) ==
    \/ ~Truthy(branch)
    \/ ILikeContains(row.branch, branch)
    \/ /\ upper(branch) \in DOMAIN branch_mappings
       /\ \E i \in 1..Len(branch_mappings[upper(branch)]) :
              ILikeContains(row.branch, branch_mappings[upper(branch)][i])

\* the rows S of bag B, with their multiplicity
SelectRows(B, S) == [r \in S |-> B[r]]

\* ORDER BY rank ASC: every arrangement of the selected rows in which the
\* ranks ascend; the order among equal ranks is the database's choice
OrderByRankAsc(B) ==
    LET n == BagCardinality(B)
    IN  {s \in [1..n -> BagToSet(B)] :
            /\ \A r \in BagToSet(B) : Cardinality({i \in 1..n : s[i] = r}) = B[r]
            /\ \A i \in 1..n : \A j \in 1..n : i < j => s[i].rank <= s[j].rank}

\* LIMIT limit, for limit >= 0
Limit(s, limit) == SubSeq(s, 1, IF limit < Len(s) THEN limit ELSE Len(s))

\* query.order_by(Cutoff.rank.asc()).limit(limit).all(): the possible result
\* lists.  PostgreSQL rejects a negative LIMIT; raised says so.
RunQuery(B, limit) ==
    IF limit < 0
    THEN [raised |-> "DataError", results |-> {<<>>}]
    ELSE [raised |-> "None", results |-> {Limit(s, limit) : s \in OrderByRankAsc(B)}]

----------------------------------------------------------------------------
(* The two query functions *)

\* get_suggested_colleges with empty caste or seat_type refused
get_suggested_colleges_validating(db, rank, caste, gender, seat_type, special_reservation, limit) ==
    IF Normalize(caste) = <<>> \/ Normalize(seat_type) = <<>>
    THEN [category_patterns |-> <<>>, level_filter |-> None,
          raised |-> "InvalidProfile", results |-> {<<>>}]
    ELSE
        LET c   == Normalize(caste)
            g   == Normalize(gender)
            st  == Normalize(seat_type)
            lf  == LevelFilter(st)
            pats == CategoryPatterns(c, g, st, special_reservation)
            Keep(row) == /\ RankFilter(row, rank)
                         /\ LevelCondition(row, lf)
                         /\ CategoryCondition(row, pats)
            q   == RunQuery(SelectRows(db, {row \in BagToSet(db) : Keep(row)}), limit)
        IN  [category_patterns |-> pats, level_filter |-> lf,
             raised |-> q.raised, results |-> q.results]

\* get_suggested_colleges(db, rank, caste, gender, seat_type,
\* special_reservation, limit): the locals it computes, the exception of the
\* query if any, and the lists it may return
get_suggested_colleges(db, rank, caste, gender, seat_type, special_reservation, limit) ==
    LET c   == Normalize(caste)
        g   == Normalize(gender)
        st  == Normalize(seat_type)
        lf  == LevelFilter(st)
        pats == CategoryPatterns(c, g, st, special_reservation)
        Keep(row) == /\ RankFilter(row, rank)
                     /\ LevelCondition(row, lf)
                     /\ CategoryCondition(row, pats)
        q   == RunQuery(SelectRows(db, {row \in BagToSet(db) : Keep(row)}), limit)
    IN  [category_patterns |-> pats, level_filter |-> lf,
         raised |-> q.raised, results |-> q.results]

\* get_college_details_by_rank(db, rank, caste, gender, seat_type,
\* college_name, branch, special_reservation, limit)
get_college_details_by_rank(db, rank, caste, gender, seat_type, college_name, branch, special_reservation, limit) ==
    LET c   == Normalize(caste)
        g   == Normalize(gender)
        st  == Normalize(seat_type)
        lf  == DetailsLevelFilter(st)
        pats == DetailsCategoryPatterns(c, g, st, special_reservation)
        Keep(row) == /\ RankFilter(row, rank)
                     /\ CollegeCondition(row, college_name)
                     /\ BranchCondition(row, branch)
                     /\ LevelCondition(row, lf)
                     /\ CategoryCondition(row, pats)
        q   == RunQuery(SelectRows(db, {row \in BagToSet(db) : Keep(row)}), limit)
    IN  [category_patterns |-> pats, level_filter |-> lf,
         raised |-> q.raised, results |-> q.results]

----------------------------------------------------------------------------
(* The route handlers *)

\* What the body of the handler's try block raises: the exception of the
\* query function, or HTTPException(status_code=404) on an empty list.
RaisedInTry(exc, result) ==
    IF exc # "None" THEN exc
    ELSE IF result = <<>> THEN "HTTPException(404)"
    ELSE "None"

\* "except Exception as e": HTTPException is a subclass of Exception, so the
\* clause catches whatever the try block raises.
CaughtByExcept(exc) == exc # "None"

\* The status of the answer: the except clause raises HTTPException(500).
RouteStatus(exc, result) ==
    IF CaughtByExcept(RaisedInTry(exc, result)) THEN 500 ELSE 200

\* limit=20 of suggest_colleges_post
SuggestPostLimit == 20

NoRequest == [endpoint |-> "none"]

\* One request is handled from the call of the query function to the answer.
Answer(endpoint, rank, caste, gender, seat_type, college_name, branch, special_reservation, limit, out) ==
    /\ request = NoRequest
    /\ \E result \in out.results :
          /\ colleges' = result
          /\ status' = RouteStatus(out.raised, result)
    /\ request' = [endpoint |-> endpoint, rank |-> rank, caste |-> caste,
                   gender |-> gender, seat_type |-> seat_type,
                   college_name |-> college_name, branch |-> branch,
                   special_reservation |-> special_reservation, limit |-> limit]
    /\ category_patterns' = out.category_patterns
    /\ level_filter' = out.level_filter
    /\ raised' = out.raised
    /\ UNCHANGED <<cutoffs, ranked_colleges, available_branches>>
    /\ UNCHANGED <<ingest_vars, auth_vars>>
    /\ UNCHANGED <<normalizer_vars, user_vars>>

\* GET /recommend
recommend_colleges(rank, caste, gender, seat_type, special_reservation, limit) ==
    Answer("/recommend", rank, caste, gender, seat_type, None, None,
           special_reservation, limit,
           get_suggested_colleges(cutoffs, rank, caste, gender, seat_type,
                                  special_reservation, limit))

\* GET /college-details
get_college_details(rank, caste, gender, seat_type, special_reservation, college_name, branch, limit) ==
    Answer("/college-details", rank, caste, gender, seat_type, college_name, branch,
           special_reservation, limit,
           get_college_details_by_rank(cutoffs, rank, caste, gender, seat_type,
                                       college_name, branch, special_reservation, limit))

\* POST /suggest-colleges: limit=20
suggest_colleges_post(rank, caste, gender, seat_type, special_reservation) ==
    Answer("/suggest-colleges", rank, caste, gender, seat_type, None, None,
           special_reservation, SuggestPostLimit,
           get_suggested_colleges(cutoffs, rank, caste, gender, seat_type,
                                  special_reservation, SuggestPostLimit))

\* get_db: the session of the request is closed once the answer is out; the
\* locals of the handler are gone.
get_db_close ==
    /\ request # NoRequest
    /\ request' = NoRequest
    /\ category_patterns' = <<>>
    /\ level_filter' = None
    /\ colleges' = <<>>
    /\ raised' = "None"
    /\ status' = 0
    /\ UNCHANGED <<cutoffs, ranked_colleges, available_branches>>
    /\ UNCHANGED <<ingest_vars, auth_vars>>
    /\ UNCHANGED <<normalizer_vars, user_vars>>

\* The most rows the table holds in the model.
MaxRows == 2

\* A cutoff row is stored (db.add(cutoff); db.commit()).  The query of a
\* request is one SELECT, so no row arrives between it and the answer.
InsertCutoff(row) ==
    /\ request = NoRequest
    /\ BagCardinality(cutoffs) < MaxRows
    /\ cutoffs' = cutoffs (+) SetToBag({row})
    /\ UNCHANGED <<request, category_patterns, level_filter, colleges, raised, status>>
    /\ UNCHANGED <<ranked_colleges, available_branches, normalizer_vars, user_vars>>
    /\ UNCHANGED <<ingest_vars, auth_vars>>

----------------------------------------------------------------------------
(* Stored rows and request inputs of the model *)

c_GOPENH == <<"G", "O", "P", "E", "N", "H">>
c_GSCAI == <<"G", "S", "C", "A", "I">>
c_PWDROPENO == <<"P", "W", "D", "R", "O", "P", "E", "N", "O">>
c_GOPENS == <<"G", "O", "P", "E", "N", "S">>
c_PWDRSCS == <<"P", "W", "D", "R", "S", "C", "S">>
c_DEFOPENO == <<"D", "E", "F", "O", "P", "E", "N", "O">>
c_LSCAI == <<"L", "S", "C", "A", "I">>
b_Computer_Science == <<"C", "o", "m", "p", "u", "t", "e", "r", " ", "S", "c", "i", "e", "n", "c", "e">>
b_Civil_Engineering == <<"C", "i", "v", "i", "l", " ", "E", "n", "g", "i", "n", "e", "e", "r", "i", "n", "g">>
n_COEP == <<"C", "O", "E", "P">>
i_open == <<"o", "p", "e", "n">>
i_OPEN == <<"O", "P", "E", "N">>
i_SC == <<"S", "C">>
i_sc_padded == <<" ", "s", "c", " ">>
i_percent == <<"%">>
i_empty == <<>>
i_blank == <<" ">>
i_male == <<"m", "a", "l", "e">>
i_MALE_padded == <<"M", "A", "L", "E", " ">>
i_FEMALE == <<"F", "E", "M", "A", "L", "E">>
i_h == <<"h">>
i_ai_padded == <<" ", "a", "i">>
i_X == <<"X">>
i_pwd == <<"p", "w", "d">>
i_pwd_padded == <<" ", "p", "w", "d", " ">>
i_Defence == <<"D", "e", "f", "e", "n", "c", "e">>
i_tfws == <<"t", "f", "w", "s">>
i_nri == <<"n", "r", "i">>
i_cs == <<"c", "s">>

\* The largest cutoff rank stored and asked for, and the largest limit asked
\* for on /recommend.
MaxRank == 2
MaxLimit == 2

\* default limit of GET /college-details
DetailsDefaultLimit == 50

\* A cutoff row with the college name the join adds.  The columns the query
\* does not read (percent, gender, year, stage) are left out; the ingestion
\* stores them non-null, so the answer can be built from every row.
Row(category, level, rank, branch) ==
    [category |-> category, level |-> level, rank |-> rank,
     branch |-> branch, college |-> n_COEP]

\* The rows the ingestion may have stored.
CutoffRows ==
    {Row(kind[1], kind[2], rank, kind[3]) :
        kind \in {<<c_GOPENH, s_home, b_Computer_Science>>,
                  <<c_GSCAI, s_all_india, b_Civil_Engineering>>,
                  <<c_PWDROPENO, s_other, b_Computer_Science>>,
                  <<c_GOPENS, s_state, b_Computer_Science>>,
                  <<c_GOPENS, s_home, b_Computer_Science>>},
        rank \in 1..MaxRank}
    \cup {Row(c_GOPENH, s_home, NULL, b_Computer_Science)}

Profile(caste, gender, seat_type, special_reservation) ==
    [caste |-> caste, gender |-> gender, seat_type |-> seat_type,
     special_reservation |-> special_reservation]

\* The student profiles asked for while the table changes.
QueryProfiles ==
    {Profile(i_open, i_male, i_h, None),
     Profile(i_OPEN, s_MALE, s_S, None),
     Profile(i_OPEN, s_MALE, i_X, None),
     Profile(i_OPEN, i_FEMALE, s_O, s_PWD),
     Profile(i_percent, s_MALE, s_AI, None),
     Profile(i_empty, s_MALE, s_H, None),
     Profile(i_OPEN, s_MALE, i_blank, None)}

\* The student profiles asked for against a fixed table: every combination of
\* these castes, genders, seat types and special reservations.
Castes == {i_open, i_SC, i_sc_padded}
Genders == {i_male, i_MALE_padded, i_FEMALE, i_X}
SeatTypes == {i_h, s_H, s_O, s_S, i_ai_padded, i_X}
SpecialReservations ==
    {None, i_empty, s_PWD, i_pwd, i_pwd_padded, i_Defence, s_ORPHAN, i_tfws, i_nri}

AllProfiles ==
    {Profile(c, g, st, sr) :
        c \in Castes, g \in Genders, st \in SeatTypes, sr \in SpecialReservations}

SampleTable ==
    SetToBag({Row(c_GOPENH, s_home, 1, b_Computer_Science),
              Row(c_PWDRSCS, s_state, 2, b_Civil_Engineering),
              Row(c_DEFOPENO, s_other, 1, b_Computer_Science),
              Row(c_LSCAI, s_all_india, 2, b_Computer_Science)})

----------------------------------------------------------------------------
(* Specifications *)

NoAnswer ==
    /\ request = NoRequest
    /\ category_patterns = <<>>
    /\ level_filter = None
    /\ colleges = <<>>
    /\ raised = "None"
    /\ status = 0

\* No call is kept.
NoCall == [op |-> "none"]

\* No BranchNormalizer has been constructed and no thread calls into one.
NoNormalizer ==
    /\ normalizer = None
    /\ threads = <<>>
    /\ remembered = NoCall

\* No user route has answered.
NoResponse == [status |-> 0]

\* /available-branches has not been asked and ranked_colleges is empty.
NoBranchListing ==
    /\ ranked_colleges = {}
    /\ available_branches = None

\* The users table is empty and no user route has answered.
NoUsers ==
    /\ users = <<>>
    /\ user_response = NoResponse

\* No PDF is open, nothing has been read and the colleges table is empty.
NoParser == [pc |-> "closed"]

NoIngestion ==
    /\ parser = NoParser
    /\ college_table = <<>>
    /\ document = [lines |-> 0, college_line |-> <<>>, course_line |-> <<>>,
                   stage_named |-> <<>>, added |-> EmptyBag]

\* No role exists and no token has been issued.
NoAuth ==
    /\ role_table = <<>>
    /\ tokens = {}

\* The table is empty before the ingestion has run.
Init == cutoffs = EmptyBag /\ NoAnswer /\ NoNormalizer /\ NoBranchListing /\ NoUsers /\ NoIngestion /\ NoAuth

Insert == \E row \in CutoffRows : InsertCutoff(row)

Recommend ==
    \E p \in QueryProfiles, rank \in 1..MaxRank, limit \in -1..MaxLimit :
        recommend_colleges(rank, p.caste, p.gender, p.seat_type, p.special_reservation, limit)

CollegeDetails ==
    \E p \in QueryProfiles, rank \in 1..MaxRank, branch \in {None, i_cs} :
        get_college_details(rank, p.caste, p.gender, p.seat_type, p.special_reservation,
                            None, branch, DetailsDefaultLimit)

SuggestPost ==
    \E p \in QueryProfiles, rank \in 1..MaxRank :
        suggest_colleges_post(rank, p.caste, p.gender, p.seat_type, p.special_reservation)

Next == Insert \/ Recommend \/ CollegeDetails \/ SuggestPost \/ get_db_close

Spec == Init /\ [][Next]_vars

\* The same handlers over a table that stays as it is, for every profile.
InitProfiles ==
    cutoffs = SampleTable /\ NoAnswer /\ NoNormalizer /\ NoBranchListing /\ NoUsers /\ NoIngestion /\ NoAuth

RecommendProfile ==
    \E p \in AllProfiles :
        recommend_colleges(1, p.caste, p.gender, p.seat_type, p.special_reservation, MaxLimit)

CollegeDetailsProfile ==
    \E p \in AllProfiles :
        get_college_details(1, p.caste, p.gender, p.seat_type, p.special_reservation,
                            None, None, DetailsDefaultLimit)

SuggestPostProfile ==
    \E p \in AllProfiles :
        suggest_colleges_post(1, p.caste, p.gender, p.seat_type, p.special_reservation)

NextProfiles == RecommendProfile \/ CollegeDetailsProfile \/ SuggestPostProfile \/ get_db_close

SpecProfiles == InitProfiles /\ [][NextProfiles]_vars

----------------------------------------------------------------------------
(* Properties *)

Answered == request # NoRequest

\* the inputs of the answered request, upper-cased and trimmed
NCaste == strip(upper(request.caste))
NGender == strip(upper(request.gender))
NSeat == strip(upper(request.seat_type))

\* the seat code the specification describes
SeatCodeOf(st) == IF st \in {s_H, s_O, s_S, s_AI} THEN st ELSE s_S

NoSpecial == request.special_reservation = None \/ request.special_reservation = <<>>

\* the reservation code of the request is code, in any letter case
SpecialIs(code) == ~NoSpecial /\ upper(request.special_reservation) = code

UsesSuggested == request.endpoint \in {"/recommend", "/suggest-colleges"}

\* s contains t as a contiguous substring
Contains(s, t) ==
    \E i \in 0..(Len(s) - Len(t)) : SubSeq(s, i + 1, i + Len(t)) = t

Occurrences(s, r) == Cardinality({i \in 1..Len(s) : s[i] = r})

\* the stored rows the specification admits for the answered request:
\* non-null rank >= the student's rank, level containing the level filter
\* when one applies, category containing one of the patterns as a substring
Admitted ==
    {r \in BagToSet(cutoffs) :
        /\ r.rank # NULL
        /\ r.rank >= request.rank
        /\ (level_filter = None \/ Contains(r.level, level_filter))
        /\ \E i \in 1..Len(category_patterns) : Contains(r.category, category_patterns[i])}

AdmittedCount == BagCardinality(SelectRows(cutoffs, Admitted))

FirstLimitOfAdmitted ==
    /\ \A i \in 1..Len(colleges) : colleges[i] \in Admitted
    /\ \A r \in Admitted : Occurrences(colleges, r) <= cutoffs[r]
    /\ Len(colleges) = (IF request.limit < AdmittedCount THEN request.limit ELSE AdmittedCount)
    /\ \A i \in 1..Len(colleges) : \A j \in 1..Len(colleges) :
          i < j => colleges[i].rank <= colleges[j].rank
    /\ \A r \in Admitted :
          Occurrences(colleges, r) < cutoffs[r] =>
              \A i \in 1..Len(colleges) : colleges[i].rank <= r.rank

\* C1: get_suggested_colleges returns exactly the first `limit` records, in
\* ascending cutoff-rank order, of the set of records whose rank is non-null
\* and >= the student's rank, whose level contains the level filter (when
\* one applies) and whose category contains at least one generated pattern as
\* a substring; no record outside that set is returned.
C1_FirstLimitOfSubstringMatches ==
    (Answered /\ UsesSuggested /\ raised = "None") => FirstLimitOfAdmitted

\* The statement of C1 for the requests whose patterns hold neither % nor _.
C1_WithoutWildcards ==
    (/\ Answered /\ UsesSuggested /\ raised = "None"
     /\ \A i \in 1..Len(category_patterns) : \A k \in 1..Len(category_patterns[i]) :
           category_patterns[i][k] \notin {"%", "_"})
    => FirstLimitOfAdmitted

\* the pattern lists and the level filter the handler of endpoint e computes
\* for profile q
PatternsFor(e, q) ==
    IF e = "/college-details"
    THEN DetailsCategoryPatterns(Normalize(q.caste), Normalize(q.gender),
                                 Normalize(q.seat_type), q.special_reservation)
    ELSE CategoryPatterns(Normalize(q.caste), Normalize(q.gender),
                          Normalize(q.seat_type), q.special_reservation)

LevelFilterFor(e, q) ==
    IF e = "/college-details"
    THEN DetailsLevelFilter(Normalize(q.seat_type))
    ELSE LevelFilter(Normalize(q.seat_type))

\* C2: with no special reservation exactly one pattern is produced: 'G' when
\* the normalized gender is MALE and 'L' for every other gender, then the
\* normalized caste, then the seat code (the seat_type itself for H, O, S,
\* AI and 'S' for any other); (open, male, h) gives the single pattern GOPENH.
C2_RegularPattern ==
    (Answered /\ NoSpecial) =>
        /\ category_patterns =
              << (IF NGender = s_MALE THEN s_G ELSE s_L) \o NCaste \o SeatCodeOf(NSeat) >>
        /\ (request.caste = i_open /\ request.gender = i_male /\ request.seat_type = i_h)
              => category_patterns = << c_GOPENH >>

C2_Witness ==
    /\ Answered
    /\ request.special_reservation = None
    /\ request.caste = i_open /\ request.gender = i_male /\ request.seat_type = i_h
    /\ category_patterns = << c_GOPENH >>

C4_PwdPatterns ==
    (Answered /\ SpecialIs(s_PWD)) =>
        /\ category_patterns = << s_PWD \o NCaste \o SeatCodeOf(NSeat),
                                  s_PWDR \o NCaste \o SeatCodeOf(NSeat) >>
        /\ (request.caste = i_SC /\ request.seat_type = s_S)
              => category_patterns = << <<"P","W","D","S","C","S">>, c_PWDRSCS >>
        /\ \A q \in AllProfiles :
              (/\ q.caste = request.caste /\ q.seat_type = request.seat_type
               /\ q.special_reservation = request.special_reservation)
              => PatternsFor(request.endpoint, q) = category_patterns

C4_Witness ==
    /\ Answered
    /\ request.endpoint = "/college-details"
    /\ request.special_reservation = i_pwd
    /\ request.gender = i_FEMALE /\ request.caste = i_SC /\ request.seat_type = s_S
    /\ category_patterns = << <<"P","W","D","S","C","S">>, c_PWDRSCS >>

\* C5: for special_reservation DEFENCE the pattern list is exactly
\* [DEFR{caste}{seat}, DEF{caste}{seat}] with DEFR first, for every caste and
\* seat_type, whatever the gender.
C5_DefencePatterns ==
    (Answered /\ SpecialIs(s_DEFENCE)) =>
        /\ category_patterns = << s_DEFR \o NCaste \o SeatCodeOf(NSeat),
                                  s_DEF \o NCaste \o SeatCodeOf(NSeat) >>
        /\ \A q \in AllProfiles :
              (/\ q.caste = request.caste /\ q.seat_type = request.seat_type
               /\ q.special_reservation = request.special_reservation)
              => PatternsFor(request.endpoint, q) = category_patterns

C5_Witness ==
    /\ Answered
    /\ request.special_reservation = i_Defence
    /\ request.gender = i_FEMALE /\ request.caste = i_open /\ request.seat_type = s_O
    /\ category_patterns = << <<"D","E","F","R","O","P","E","N","O">>, c_DEFOPENO >>
    /\ \E i \in 1..Len(colleges) : colleges[i].category = c_DEFOPENO

\* C6: for special_reservation ORPHAN or TFWS the pattern list is exactly the
\* single literal 'ORPHAN' or 'TFWS', whatever caste, gender and seat_type
\* are: two profiles that differ only in those three fields yield the same
\* pattern list.
C6_OrphanTfwsLiteral ==
    Answered =>
        /\ SpecialIs(s_ORPHAN) => category_patterns = << s_ORPHAN >>
        /\ SpecialIs(s_TFWS) => category_patterns = << s_TFWS >>
        /\ (SpecialIs(s_ORPHAN) \/ SpecialIs(s_TFWS)) =>
              \A q \in AllProfiles :
                 q.special_reservation = request.special_reservation
                 => PatternsFor(request.endpoint, q) = category_patterns

C6_Witness ==
    /\ Answered
    /\ request.special_reservation = s_ORPHAN
    /\ request.caste = i_sc_padded /\ request.gender = i_FEMALE /\ request.seat_type = i_ai_padded
    /\ category_patterns = << s_ORPHAN >>

\* C7: for every profile with non-empty caste and seat_type, any gender and
\* any special_reservation (absent, empty, recognised or not) the pattern
\* list is non-empty, so a category filter is always applied; an unrecognised
\* reservation code yields the single pattern {special_code}{caste}{seat}.
C7_PatternsNonEmpty ==
    (Answered /\ NCaste # <<>> /\ NSeat # <<>>) =>
        /\ Len(category_patterns) >= 1
        /\ \A i \in 1..Len(colleges) :
              \E j \in 1..Len(category_patterns) :
                 LikeContains(colleges[i].category, category_patterns[j])
        /\ (~NoSpecial /\ upper(request.special_reservation)
                              \notin {s_PWD, s_DEFENCE, s_ORPHAN, s_TFWS})
              => category_patterns =
                    << upper(request.special_reservation) \o NCaste \o SeatCodeOf(NSeat) >>

C7_Witness ==
    /\ Answered
    /\ request.special_reservation = i_nri
    /\ request.caste = i_sc_padded /\ request.seat_type = i_h
    /\ category_patterns = << <<"N","R","I","S","C","H">> >>

EmptyCasteOrSeat == NCaste = <<>> \/ NSeat = <<>>

QueryWasRun ==
    \A r \in BagToSet(cutoffs) :
       (/\ RankFilter(r, request.rank)
        /\ LevelCondition(r, level_filter)
        /\ CategoryCondition(r, category_patterns)
        /\ BranchCondition(r, request.branch))
       => (Occurrences(colleges, r) = cutoffs[r] \/ Len(colleges) = request.limit)

NormalizeOptional(s) == IF s = None THEN None ELSE strip(upper(s))

\* p and q are the same profile up to letter case and surrounding whitespace
SameNormalized(p, q) ==
    /\ strip(upper(p.caste)) = strip(upper(q.caste))
    /\ strip(upper(p.gender)) = strip(upper(q.gender))
    /\ strip(upper(p.seat_type)) = strip(upper(q.seat_type))
    /\ NormalizeOptional(p.special_reservation) = NormalizeOptional(q.special_reservation)

\* C9: the generated patterns and the level filter do not change when any of
\* caste, gender, seat_type or special_reservation is given in a different
\* letter case or with leading or trailing whitespace (' pwd ' behaves as
\* 'PWD').
C9_CaseAndWhitespaceIgnored ==
    Answered =>
        \A q \in AllProfiles :
           SameNormalized(q, request) =>
               /\ PatternsFor(request.endpoint, q) = category_patterns
               /\ LevelFilterFor(request.endpoint, q) = level_filter

\* The statement of C9 for two profiles whose special_reservation differs in
\* letter case only.
C9_ExceptReservationWhitespace ==
    Answered =>
        \A q \in AllProfiles :
           (/\ SameNormalized(q, request)
            /\ (q.special_reservation = None) = (request.special_reservation = None)
            /\ q.special_reservation # None =>
                  upper(q.special_reservation) = upper(request.special_reservation))
           => /\ PatternsFor(request.endpoint, q) = category_patterns
              /\ LevelFilterFor(request.endpoint, q) = level_filter

\* C10: when the query yields no record, /recommend, /suggest-colleges and
\* /college-details answer 404 'No colleges found for the given criteria',
\* never 500.
C10_NoRecordsAnswered404 ==
    (Answered /\ raised = "None" /\ colleges = <<>>) => status = 404

----------------------------------------------------------------------------
(* Branch normalizer: app/utils/branch_normalizer.py *)

self_branch_mappings ==
    <<
       [normalized |-> <<"C", "S", "E">>,
        variations |-> <<
            <<"C", "o", "m", "p", "u", "t", "e", "r", " ", "S", "c", "i", "e", "n", "c", "e", " ", "a", "n", "d", " ", "E", "n", "g", "i", "n", "e", "e", "r", "i", "n", "g">>,
            <<"C", "o", "m", "p", "u", "t", "e", "r", " ", "S", "c", "i", "e", "n", "c", "e", " ", "&", " ", "E", "n", "g", "i", "n", "e", "e", "r", "i", "n", "g">>,
            <<"C", "o", "m", "p", "u", "t", "e", "r", " ", "E", "n", "g", "i", "n", "e", "e", "r", "i", "n", "g">>,
            <<"C", "o", "m", "p", "u", "t", "e", "r", " ", "S", "c", "i", "e", "n", "c", "e">>,
            <<"C", "o", "m", "p", "u", "t", "e", "r", " ", "S", "c", "i", "e", "n", "c", "e", " ", "a", "n", "d", " ", "E", "n", "g", "i", "n", "e", "e", "r", "i", "n", "g", " ", "(", "A", "r", "t", "i", "f", "i", "c", "i", "a", "l", " ", "I", "n", "t", "e", "l", "l", "i", "g", "e", "n", "c", "e", ")">>,
            <<"C", "o", "m", "p", "u", "t", "e", "r", " ", "S", "c", "i", "e", "n", "c", "e", " ", "a", "n", "d", " ", "E", "n", "g", "i", "n", "e", "e", "r", "i", "n", "g", " ", "(", "A", "r", "t", "i", "f", "i", "c", "i", "a", "l", " ", "I", "n", "t", "e", "l", "l", "i", "g", "e", "n", "c", "e", " ", "a", "n", "d", " ", "D", "a", "t", "a", " ", "S", "c", "i", "e", "n", "c", "e", ")">>,
            <<"C", "o", "m", "p", "u", "t", "e", "r", " ", "S", "c", "i", "e", "n", "c", "e", " ", "a", "n", "d", " ", "E", "n", "g", "i", "n", "e", "e", "r", "i", "n", "g", "(", "A", "r", "t", "i", "f", "i", "c", "i", "a", "l", " ", "I", "n", "t", "e", "l", "l", "i", "g", "e", "n", "c", "e", " ", "a", "n", "d", " ", "M", "a", "c", "h", "i", "n", "e", " ", "L", "e", "a", "r", "n", "i", "n", "g", ")">>,
            <<"C", "o", "m", "p", "u", "t", "e", "r", " ", "S", "c", "i", "e", "n", "c", "e", " ", "a", "n", "d", " ", "E", "n", "g", "i", "n", "e", "e", "r", "i", "n", "g", " ", "(", "C", "y", "b", "e", "r", " ", "S", "e", "c", "u", "r", "i", "t", "y", ")">>,
            <<"C", "o", "m", "p", "u", "t", "e", "r", " ", "S", "c", "i", "e", "n", "c", "e", " ", "a", "n", "d", " ", "E", "n", "g", "i", "n", "e", "e", "r", "i", "n", "g", "(", "C", "y", "b", "e", "r", " ", "S", "e", "c", "u", "r", "i", "t", "y", ")">>,
            <<"C", "o", "m", "p", "u", "t", "e", "r", " ", "S", "c", "i", "e", "n", "c", "e", " ", "a", "n", "d", " ", "E", "n", "g", "i", "n", "e", "e", "r", "i", "n", "g", "(", "D", "a", "t", "a", " ", "S", "c", "i", "e", "n", "c", "e", ")">>,
            <<"C", "o", "m", "p", "u", "t", "e", "r", " ", "S", "c", "i", "e", "n", "c", "e", " ", "a", "n", "d", " ", "E", "n", "g", "i", "n", "e", "e", "r", "i", "n", "g", " ", "(", "I", "n", "t", "e", "r", "n", "e", "t", " ", "o", "f", " ", "T", "h", "i", "n", "g", "s", " ", "a", "n", "d", " ", "C", "y", "b", "e", "r", " ", "S", "e", "c", "u", "r", "i", "t", "y", " ", "I", "n", "c", "l", "u", "d", "i", "n", "g", " ", "B", "l", "o", "c", "k", " ", "C", "h", "a", "i", "n">>,
            <<"C", "o", "m", "p", "u", "t", "e", "r", " ", "E", "n", "g", "i", "n", "e", "e", "r", "i", "n", "g", " ", "(", "S", "o", "f", "t", "w", "a", "r", "e", " ", "E", "n", "g", "i", "n", "e", "e", "r", "i", "n", "g", ")">>,
            <<"C", "o", "m", "p", "u", "t", "e", "r", " ", "S", "c", "i", "e", "n", "c", "e", " ", "a", "n", "d", " ", "B", "u", "s", "i", "n", "e", "s", "s", " ", "S", "y", "s", "t", "e", "m", "s">>,
            <<"C", "o", "m", "p", "u", "t", "e", "r", " ", "S", "c", "i", "e", "n", "c", "e", " ", "a", "n", "d", " ", "D", "e", "s", "i", "g", "n">>>>],
       [normalized |-> <<"I", "T">>,
        variations |-> <<
            <<"I", "n", "f", "o", "r", "m", "a", "t", "i", "o", "n", " ", "T", "e", "c", "h", "n", "o", "l", "o", "g", "y">>,
            <<"I", "n", "f", "o", "r", "m", "a", "t", "i", "o", "n", " ", "T", "e", "c", "h", "n", "o", "l", "o", "g", "y", " ", "E", "n", "g", "i", "n", "e", "e", "r", "i", "n", "g">>,
            <<"I", "n", "f", "o", "r", "m", "a", "t", "i", "o", "n", " ", "T", "e", "c", "h", "n", "o", "l", "o", "g", "y", " ", "a", "n", "d", " ", "E", "n", "g", "i", "n", "e", "e", "r", "i", "n", "g">>>>],
       [normalized |-> <<"E", "C", "E">>,
        variations |-> <<
            <<"E", "l", "e", "c", "t", "r", "o", "n", "i", "c", "s", " ", "a", "n", "d", " ", "C", "o", "m", "m", "u", "n", "i", "c", "a", "t", "i", "o", "n", " ", "E", "n", "g", "i", "n", "e", "e", "r", "i", "n", "g">>,
            <<"E", "l", "e", "c", "t", "r", "o", "n", "i", "c", "s", " ", "&", " ", "C", "o", "m", "m", "u", "n", "i", "c", "a", "t", "i", "o", "n", " ", "E", "n", "g", "i", "n", "e", "e", "r", "i", "n", "g">>,
            <<"E", "l", "e", "c", "t", "r", "o", "n", "i", "c", "s", " ", "a", "n", "d", " ", "C", "o", "m", "m", "u", "n", "i", "c", "a", "t", "i", "o", "n", "s", " ", "E", "n", "g", "i", "n", "e", "e", "r", "i", "n", "g">>,
            <<"E", "l", "e", "c", "t", "r", "o", "n", "i", "c", "s", " ", "a", "n", "d", " ", "T", "e", "l", "e", "c", "o", "m", "m", "u", "n", "i", "c", "a", "t", "i", "o", "n", " ", "E", "n", "g", "i", "n", "e", "e", "r", "i", "n", "g">>,
            <<"E", "l", "e", "c", "t", "r", "o", "n", "i", "c", "s", " ", "&", " ", "T", "e", "l", "e", "c", "o", "m", "m", "u", "n", "i", "c", "a", "t", "i", "o", "n", " ", "E", "n", "g", "i", "n", "e", "e", "r", "i", "n", "g">>,
            <<"E", "l", "e", "c", "t", "r", "o", "n", "i", "c", "s", " ", "E", "n", "g", "i", "n", "e", "e", "r", "i", "n", "g">>>>],
       [normalized |-> <<"E", "E", "E">>,
        variations |-> <<
            <<"E", "l", "e", "c", "t", "r", "i", "c", "a", "l", " ", "a", "n", "d", " ", "E", "l", "e", "c", "t", "r", "o", "n", "i", "c", "s", " ", "E", "n", "g", "i", "n", "e", "e", "r", "i", "n", "g">>,
            <<"E", "l", "e", "c", "t", "r", "i", "c", "a", "l", " ", "&", " ", "E", "l", "e", "c", "t", "r", "o", "n", "i", "c", "s", " ", "E", "n", "g", "i", "n", "e", "e", "r", "i", "n", "g">>,
            <<"E", "l", "e", "c", "t", "r", "i", "c", "a", "l", " ", "E", "n", "g", "i", "n", "e", "e", "r", "i", "n", "g">>>>],
       [normalized |-> <<"E", "T", "C">>,
        variations |-> <<
            <<"E", "l", "e", "c", "t", "r", "o", "n", "i", "c", "s", " ", "a", "n", "d", " ", "T", "e", "l", "e", "c", "o", "m", "m", "u", "n", "i", "c", "a", "t", "i", "o", "n">>,
            <<"E", "l", "e", "c", "t", "r", "o", "n", "i", "c", "s", " ", "&", " ", "T", "e", "l", "e", "c", "o", "m", "m", "u", "n", "i", "c", "a", "t", "i", "o", "n">>>>],
       [normalized |-> <<"M", "E">>,
        variations |-> <<
            <<"M", "e", "c", "h", "a", "n", "i", "c", "a", "l", " ", "E", "n", "g", "i", "n", "e", "e", "r", "i", "n", "g">>,
            <<"M", "e", "c", "h", "a", "n", "i", "c", "a", "l", " ", "a", "n", "d", " ", "A", "u", "t", "o", "m", "a", "t", "i", "o", "n", " ", "E", "n", "g", "i", "n", "e", "e", "r", "i", "n", "g">>,
            <<"M", "e", "c", "h", "a", "n", "i", "c", "a", "l", " ", "&", " ", "A", "u", "t", "o", "m", "a", "t", "i", "o", "n", " ", "E", "n", "g", "i", "n", "e", "e", "r", "i", "n", "g">>>>],
       [normalized |-> <<"C", "E">>,
        variations |-> <<
            <<"C", "i", "v", "i", "l", " ", "E", "n", "g", "i", "n", "e", "e", "r", "i", "n", "g">>,
            <<"C", "i", "v", "i", "l", " ", "a", "n", "d", " ", "E", "n", "v", "i", "r", "o", "n", "m", "e", "n", "t", "a", "l", " ", "E", "n", "g", "i", "n", "e", "e", "r", "i", "n", "g">>,
            <<"C", "i", "v", "i", "l", " ", "&", " ", "E", "n", "v", "i", "r", "o", "n", "m", "e", "n", "t", "a", "l", " ", "E", "n", "g", "i", "n", "e", "e", "r", "i", "n", "g">>,
            <<"C", "i", "v", "i", "l", " ", "a", "n", "d", " ", "i", "n", "f", "r", "a", "s", "t", "r", "u", "c", "t", "u", "r", "e", " ", "E", "n", "g", "i", "n", "e", "e", "r", "i", "n", "g">>,
            <<"C", "i", "v", "i", "l", " ", "E", "n", "g", "i", "n", "e", "e", "r", "i", "n", "g", " ", "a", "n", "d", " ", "P", "l", "a", "n", "n", "i", "n", "g">>>>],
       [normalized |-> <<"C", "H", "E">>,
        variations |-> <<
            <<"C", "h", "e", "m", "i", "c", "a", "l", " ", "E", "n", "g", "i", "n", "e", "e", "r", "i", "n", "g">>,
            <<"C", "h", "e", "m", "i", "c", "a", "l", " ", "T", "e", "c", "h", "n", "o", "l", "o", "g", "y">>>>],
       [normalized |-> <<"B", "T">>,
        variations |-> <<
            <<"B", "i", "o", " ", "T", "e", "c", "h", "n", "o", "l", "o", "g", "y">>,
            <<"B", "i", "o", "t", "e", "c", "h", "n", "o", "l", "o", "g", "y">>,
            <<"B", "i", "o", "-", "T", "e", "c", "h", "n", "o", "l", "o", "g", "y">>>>],
       [normalized |-> <<"B", "M", "E">>,
        variations |-> <<
            <<"B", "i", "o", " ", "M", "e", "d", "i", "c", "a", "l", " ", "E", "n", "g", "i", "n", "e", "e", "r", "i", "n", "g">>,
            <<"B", "i", "o", "m", "e", "d", "i", "c", "a", "l", " ", "E", "n", "g", "i", "n", "e", "e", "r", "i", "n", "g">>,
            <<"B", "i", "o", "-", "M", "e", "d", "i", "c", "a", "l", " ", "E", "n", "g", "i", "n", "e", "e", "r", "i", "n", "g">>>>],
       [normalized |-> <<"A", "E">>,
        variations |-> <<
            <<"A", "u", "t", "o", "m", "o", "b", "i", "l", "e", " ", "E", "n", "g", "i", "n", "e", "e", "r", "i", "n", "g">>,
            <<"A", "u", "t", "o", "m", "o", "t", "i", "v", "e", " ", "E", "n", "g", "i", "n", "e", "e", "r", "i", "n", "g">>>>],
       [normalized |-> <<"A", "E", "R", "O">>,
        variations |-> <<
            <<"A", "e", "r", "o", "n", "a", "u", "t", "i", "c", "a", "l", " ", "E", "n", "g", "i", "n", "e", "e", "r", "i", "n", "g">>,
            <<"A", "e", "r", "o", "s", "p", "a", "c", "e", " ", "E", "n", "g", "i", "n", "e", "e", "r", "i", "n", "g">>>>],
       [normalized |-> <<"A", "G", "E">>,
        variations |-> <<
            <<"A", "g", "r", "i", "c", "u", "l", "t", "u", "r", "a", "l", " ", "E", "n", "g", "i", "n", "e", "e", "r", "i", "n", "g">>,
            <<"A", "g", "r", "i", "c", "u", "l", "t", "u", "r", "e", " ", "E", "n", "g", "i", "n", "e", "e", "r", "i", "n", "g">>>>],
       [normalized |-> <<"A", "I", "D", "S">>,
        variations |-> <<
            <<"A", "r", "t", "i", "f", "i", "c", "i", "a", "l", " ", "I", "n", "t", "e", "l", "l", "i", "g", "e", "n", "c", "e", " ", "a", "n", "d", " ", "D", "a", "t", "a", " ", "S", "c", "i", "e", "n", "c", "e">>,
            <<"A", "r", "t", "i", "f", "i", "c", "i", "a", "l", " ", "I", "n", "t", "e", "l", "l", "i", "g", "e", "n", "c", "e", " ", "&", " ", "D", "a", "t", "a", " ", "S", "c", "i", "e", "n", "c", "e">>,
            <<"A", "I", " ", "a", "n", "d", " ", "D", "a", "t", "a", " ", "S", "c", "i", "e", "n", "c", "e">>>>],
       [normalized |-> <<"A", "I", "M", "L">>,
        variations |-> <<
            <<"A", "r", "t", "i", "f", "i", "c", "i", "a", "l", " ", "I", "n", "t", "e", "l", "l", "i", "g", "e", "n", "c", "e", " ", "a", "n", "d", " ", "M", "a", "c", "h", "i", "n", "e", " ", "L", "e", "a", "r", "n", "i", "n", "g">>,
            <<"A", "r", "t", "i", "f", "i", "c", "i", "a", "l", " ", "I", "n", "t", "e", "l", "l", "i", "g", "e", "n", "c", "e", " ", "&", " ", "M", "a", "c", "h", "i", "n", "e", " ", "L", "e", "a", "r", "n", "i", "n", "g">>,
            <<"A", "I", " ", "a", "n", "d", " ", "M", "a", "c", "h", "i", "n", "e", " ", "L", "e", "a", "r", "n", "i", "n", "g">>>>],
       [normalized |-> <<"D", "S">>,
        variations |-> <<
            <<"D", "a", "t", "a", " ", "S", "c", "i", "e", "n", "c", "e">>,
            <<"D", "a", "t", "a", " ", "S", "c", "i", "e", "n", "c", "e", " ", "a", "n", "d", " ", "E", "n", "g", "i", "n", "e", "e", "r", "i", "n", "g">>>>],
       [normalized |-> <<"A", "I">>,
        variations |-> <<
            <<"A", "r", "t", "i", "f", "i", "c", "i", "a", "l", " ", "I", "n", "t", "e", "l", "l", "i", "g", "e", "n", "c", "e">>>>],
       [normalized |-> <<"A", "R">>,
        variations |-> <<
            <<"A", "u", "t", "o", "m", "a", "t", "i", "o", "n", " ", "a", "n", "d", " ", "R", "o", "b", "o", "t", "i", "c", "s">>,
            <<"A", "u", "t", "o", "m", "a", "t", "i", "o", "n", " ", "&", " ", "R", "o", "b", "o", "t", "i", "c", "s">>,
            <<"R", "o", "b", "o", "t", "i", "c", "s", " ", "a", "n", "d", " ", "A", "u", "t", "o", "m", "a", "t", "i", "o", "n">>>>],
       [normalized |-> <<"A", "R", "C", "H">>,
        variations |-> <<
            <<"A", "r", "c", "h", "i", "t", "e", "c", "t", "u", "r", "e">>,
            <<"A", "r", "c", "h", "i", "t", "e", "c", "t", "u", "r", "a", "l", " ", "A", "s", "s", "i", "s", "t", "a", "n", "t", "s", "h", "i", "p">>>>],
       [normalized |-> <<"5", "G">>,
        variations |-> <<
            <<"5", "G">>,
            <<"5", "G", " ", "T", "e", "c", "h", "n", "o", "l", "o", "g", "y">>>>]
    >>

\* The (normalized, variation) pairs in the order the two nested loops over
\* branch_mappings.items() visit them (a dict iterates in insertion order).
RECURSIVE Items(_)
Items(mappings) ==
    IF mappings = <<>> THEN <<>>
    ELSE [i \in 1..Len(Head(mappings).variations) |->
             [normalized |-> Head(mappings).normalized,
              variation |-> Head(mappings).variations[i]]]
         \o Items(Tail(mappings))

\* BranchNormalizer(): the table, and the reverse mapping in which a later
\* assignment to the same lower-cased key replaces an earlier one.
BranchNormalizer ==
    LET items == Items(self_branch_mappings)
        keys == {lower(items[i].variation) : i \in 1..Len(items)}
        last(key) == CHOOSE i \in 1..Len(items) :
                        /\ lower(items[i].variation) = key
                        /\ \A j \in (i + 1)..Len(items) : lower(items[j].variation) # key
    IN [branch_mappings |-> self_branch_mappings,
        full_name_to_normalized |-> [k \in keys |-> items[last(k)].normalized]]

\* The characters of the class [&(),.-]
Punctuation == {"&", "(", ")", ",", ".", "-"}

\* re.sub(r'[&(),.-]', ' ', s)
sub_punctuation_without_dot(s) ==
    [i \in 1..Len(s) |-> IF s[i] \in Punctuation \ {"."} THEN " " ELSE s[i]]

sub_punctuation(s) == [i \in 1..Len(s) |-> IF s[i] \in Punctuation THEN " " ELSE s[i]]

\* re.sub(r'\s+', ' ', s): every character that is no whitespace stays, and of
\* a run of whitespace one space stays, in the place of its first character.
sub_whitespace(s) ==
    LET marked == [i \in 1..Len(s) |->
                      IF s[i] \notin Whitespace THEN <<s[i], TRUE>>
                      ELSE <<" ", i = 1 \/ s[i - 1] \notin Whitespace>>]
        stays(m) == m[2]
        kept == SelectSeq(marked, stays)
    IN [k \in 1..Len(kept) |-> kept[k][1]]

\* branch_clean / variation_clean of _fuzzy_match
clean(s) == strip(sub_whitespace(sub_punctuation(s)))

\* BranchNormalizer._fuzzy_match (its first parameter is branch_lower)
fuzzy_match(name_lower, variation_lower) == clean(name_lower) = clean(variation_lower)

\* "branch_lower in self.full_name_to_normalized"
DirectHit(self, key) == key \in DOMAIN self.full_name_to_normalized

\* The two nested loops of normalize_branch: the normalized name of the first
\* pair that fuzzy-matches, or None when the loops run to their end.
FuzzyLoop(self, lowered) ==
    LET items == Items(self.branch_mappings)
        hits == {i \in 1..Len(items) : fuzzy_match(lowered, lower(items[i].variation))}
    IN IF hits = {} THEN None
       ELSE items[CHOOSE i \in hits : \A j \in hits : i <= j].normalized

normalize_branch_case_sensitive(self, branch_name) ==
    IF ~Truthy(branch_name) THEN branch_name
    ELSE LET branch_lower == strip(branch_name)
         IN IF DirectHit(self, branch_lower)
            THEN self.full_name_to_normalized[branch_lower]
            ELSE IF FuzzyLoop(self, branch_lower) # None
                 THEN FuzzyLoop(self, branch_lower)
                 ELSE strip(branch_name)

normalize_branch_lowered_fallback(self, branch_name) ==
    IF ~Truthy(branch_name) THEN branch_name
    ELSE LET branch_lower == lower(strip(branch_name))
         IN IF DirectHit(self, branch_lower)
            THEN self.full_name_to_normalized[branch_lower]
            ELSE IF FuzzyLoop(self, branch_lower) # None
                 THEN FuzzyLoop(self, branch_lower)
                 ELSE branch_lower

normalize_branch_as_docstring(self, branch_name) ==
    IF ~Truthy(branch_name) THEN branch_name
    ELSE LET branch_lower == lower(strip(branch_name))
         IN IF branch_lower = <<"c", "o", "m", "p", "u", "t", "e", "r", " ", "e", "n", "g", "i", "n", "e", "e", "r", "i", "n", "g">>
            THEN <<"C", "E">>
            ELSE IF DirectHit(self, branch_lower)
            THEN self.full_name_to_normalized[branch_lower]
            ELSE IF FuzzyLoop(self, branch_lower) # None
                 THEN FuzzyLoop(self, branch_lower)
                 ELSE strip(branch_name)

normalize_branch_blank_unchanged(self, branch_name) ==
    IF ~Truthy(branch_name) \/ strip(branch_name) = <<>> THEN branch_name
    ELSE LET branch_lower == lower(strip(branch_name))
         IN IF DirectHit(self, branch_lower)
            THEN self.full_name_to_normalized[branch_lower]
            ELSE IF FuzzyLoop(self, branch_lower) # None
                 THEN FuzzyLoop(self, branch_lower)
                 ELSE strip(branch_name)

\* BranchNormalizer.normalize_branch
normalize_branch(self, branch_name) ==
    IF ~Truthy(branch_name) THEN branch_name
    ELSE LET branch_lower == lower(strip(branch_name))
         IN IF DirectHit(self, branch_lower)
            THEN self.full_name_to_normalized[branch_lower]
            ELSE IF FuzzyLoop(self, branch_lower) # None
                 THEN FuzzyLoop(self, branch_lower)
                 ELSE strip(branch_name)

\* The printable characters in the order of their code points, from 32 on.
Ascii ==
    <<" ", "!", "\"", "#", "$", "%", "&", "'", "(", ")", "*", "+", ",", "-", ".", "/",
      "0", "1", "2", "3", "4", "5", "6", "7", "8", "9", ":", ";", "<", "=", ">", "?",
      "@", "A", "B", "C", "D", "E", "F", "G", "H", "I", "J", "K", "L", "M", "N", "O",
      "P", "Q", "R", "S", "T", "U", "V", "W", "X", "Y", "Z", "[", "\\", "]", "^", "_",
      \* the grave accent (96) is left out: a string may not hold it; "a" is 97
      "a", "b", "c", "d", "e", "f", "g", "h", "i", "j", "k", "l", "m", "n", "o",
      "p", "q", "r", "s", "t", "u", "v", "w", "x", "y", "z", "{", "|", "}", "~">>

\* ord(c) of the characters the model uses
ord(c) ==
    CASE c = "\t" -> 9
      [] c = "\n" -> 10
      [] c = "\r" -> 13
      [] OTHER -> LET i == CHOOSE k \in 1..Len(Ascii) : Ascii[k] = c
                  IN IF i <= 64 THEN 31 + i ELSE 32 + i

\* a < b for two str: by code point, a proper prefix first
RECURSIVE StrLess(_, _)
StrLess(a, b) ==
    IF b = <<>> THEN FALSE
    ELSE IF a = <<>> THEN TRUE
    ELSE IF Head(a) = Head(b) THEN StrLess(Tail(a), Tail(b))
    ELSE ord(Head(a)) < ord(Head(b))

\* sorted(xs, key=...): ascending by key, equal keys in their order in xs
SortedBy(xs, key) ==
    LET n == Len(xs)
        pos(m) == 1 + Cardinality({j \in 1..n : \/ StrLess(key[j], key[m])
                                                \/ key[j] = key[m] /\ j < m})
    IN [k \in 1..n |-> xs[CHOOSE i \in 1..n : pos(i) = k]]

\* sorted(list(a_set)) of a set of str
SortedSet(S) ==
    [k \in 1..Cardinality(S) |->
        CHOOSE x \in S : Cardinality({y \in S : StrLess(y, x)}) = k - 1]

\* "not branch or not branch.strip()"
Blank(branch) == ~Truthy(branch) \/ strip(branch) = <<>>

\* One pass of the loop body of get_all_branches_with_normalized over branch;
\* locals holds result and seen_normalized.
with_normalized_body(self, locals, branch) ==
    IF Blank(branch) THEN locals
    ELSE LET normalized == normalize_branch(self, branch)
         IN IF normalized \in locals.seen_normalized THEN locals
            ELSE [result |-> Append(locals.result, <<branch, normalized>>),
                  seen_normalized |-> locals.seen_normalized \cup {normalized}]

RECURSIVE with_normalized_loop(_, _, _)
with_normalized_loop(self, acc, branches) ==
    IF branches = <<>> THEN acc
    ELSE with_normalized_loop(self, with_normalized_body(self, acc, Head(branches)),
                              Tail(branches))

\* "return sorted(result, key=lambda x: x[1])"
sorted_by_normalized(result) == SortedBy(result, [i \in 1..Len(result) |-> result[i][2]])

get_all_branches_with_normalized_last_original(self, branches) ==
    LET n == Len(branches)
        reversed == [i \in 1..n |-> branches[n + 1 - i]]
    IN sorted_by_normalized(
           with_normalized_loop(self, [result |-> <<>>, seen_normalized |-> {}],
                                reversed).result)

\* BranchNormalizer.get_all_branches_with_normalized
get_all_branches_with_normalized(self, branches) ==
    sorted_by_normalized(
        with_normalized_loop(self, [result |-> <<>>, seen_normalized |-> {}],
                             branches).result)

\* One pass of the loop body of get_normalized_branches over branch.
normalized_set_body(self, codes, branch) ==
    IF Blank(branch) THEN codes
    ELSE codes \cup {normalize_branch(self, branch)}

RECURSIVE normalized_set_loop(_, _, _)
normalized_set_loop(self, normalized_set, branches) ==
    IF branches = <<>> THEN normalized_set
    ELSE normalized_set_loop(self, normalized_set_body(self, normalized_set, Head(branches)),
                             Tail(branches))

get_normalized_branches_keeping_blank(self, branches) ==
    SortedSet({normalize_branch(self, branches[i]) : i \in 1..Len(branches)})

\* BranchNormalizer.get_normalized_branches
get_normalized_branches(self, branches) ==
    SortedSet(normalized_set_loop(self, {}, branches))

\* What a call of normalize_branch leaves of the instance: the method assigns
\* to no attribute of self.
normalize_branch_effect_remembering(self, branch_name) ==
    IF ~Truthy(branch_name) THEN self
    ELSE [self EXCEPT !.full_name_to_normalized =
              (lower(strip(branch_name)) :> strip(branch_name)) @@ @]

normalize_branch_effect_forgetting(self, branch_name) ==
    IF ~Truthy(branch_name) THEN self
    ELSE [self EXCEPT !.full_name_to_normalized =
              [k \in (DOMAIN @) \ {lower(strip(branch_name))} |-> @[k]]]

normalize_branch_effect(self, branch_name) == self

----------------------------------------------------------------------------
(* Callers of the branch normalizer *)

\* The most threads that call into one instance at a time.
NumThreads == 2

Threads == 1..NumThreads

\* A thread that is in no call.
IdleFrame == [pc |-> "idle"]

\* The frame of a call that has returned ret to its caller.
ReturnedFrame(op, arg, ret) ==
    [pc |-> "returned", op |-> op, arg |-> arg, ret |-> ret, raised |-> "None"]

Idle(t) == threads[t].pc = "idle"

\* normalizer.normalize_branch(branch_name), run from its call to its return
CallNormalizeBranch(t, branch_name) ==
    /\ Idle(t)
    /\ threads' = [threads EXCEPT ![t] =
                      ReturnedFrame("normalize_branch", branch_name,
                                    normalize_branch(normalizer, branch_name))]
    /\ normalizer' = normalize_branch_effect(normalizer, branch_name)
    /\ UNCHANGED <<remembered, ranked_colleges, available_branches, query_vars, user_vars>>
    /\ UNCHANGED <<ingest_vars, auth_vars>>

\* normalizer.get_normalized_branches(branches), run from its call to its return
CallGetNormalizedBranches(t, branches) ==
    /\ Idle(t)
    /\ threads' = [threads EXCEPT ![t] =
                      ReturnedFrame("get_normalized_branches", branches,
                                    get_normalized_branches(normalizer, branches))]
    /\ UNCHANGED <<normalizer, remembered, ranked_colleges, available_branches>>
    /\ UNCHANGED <<ingest_vars, auth_vars>>
    /\ UNCHANGED <<query_vars, user_vars>>

\* normalizer.get_all_branches_with_normalized(branches), from call to return
CallGetAllBranchesWithNormalized(t, branches) ==
    /\ Idle(t)
    /\ threads' = [threads EXCEPT ![t] =
                      ReturnedFrame("get_all_branches_with_normalized", branches,
                                    get_all_branches_with_normalized(normalizer, branches))]
    /\ UNCHANGED <<normalizer, remembered, ranked_colleges, available_branches>>
    /\ UNCHANGED <<ingest_vars, auth_vars>>
    /\ UNCHANGED <<query_vars, user_vars>>

\* The caller has taken the returned value; the frame of the call is gone.
Return(t) ==
    /\ threads[t].pc = "returned"
    /\ threads' = [threads EXCEPT ![t] = IdleFrame]
    /\ UNCHANGED <<normalizer, remembered, ranked_colleges, available_branches>>
    /\ UNCHANGED <<ingest_vars, auth_vars>>
    /\ UNCHANGED <<query_vars, user_vars>>

(* The same methods as a thread runs them next to other threads: between    *)
(* two steps of one thread any other thread may run.                         *)

\* normalize_branch is entered.
EnterNormalizeBranch(t, branch_name) ==
    /\ Idle(t)
    /\ threads' = [threads EXCEPT ![t] =
                      [pc |-> "lookup", op |-> "normalize_branch", arg |-> branch_name]]
    /\ UNCHANGED <<normalizer, remembered, ranked_colleges, available_branches>>
    /\ UNCHANGED <<ingest_vars, auth_vars>>
    /\ UNCHANGED <<query_vars, user_vars>>

\* "if not branch_name" and the direct lookup
Lookup(t) ==
    /\ threads[t].pc = "lookup"
    /\ LET f == threads[t]
           branch_lower == lower(strip(f.arg))
       IN threads' = [threads EXCEPT ![t] =
              IF ~Truthy(f.arg) THEN ReturnedFrame(f.op, f.arg, f.arg)
              ELSE IF DirectHit(normalizer, branch_lower)
                   THEN ReturnedFrame(f.op, f.arg,
                                      normalizer.full_name_to_normalized[branch_lower])
                   ELSE [pc |-> "fuzzy", op |-> f.op, arg |-> f.arg,
                         branch_lower |-> branch_lower]]
    /\ normalizer' = normalize_branch_effect(normalizer, threads[t].arg)
    /\ UNCHANGED <<remembered, ranked_colleges, available_branches, query_vars, user_vars>>
    /\ UNCHANGED <<ingest_vars, auth_vars>>

\* the fuzzy loops and the final "return branch_name.strip()"
Fuzzy(t) ==
    /\ threads[t].pc = "fuzzy"
    /\ LET f == threads[t]
           normalized == FuzzyLoop(normalizer, f.branch_lower)
       IN threads' = [threads EXCEPT ![t] =
              ReturnedFrame(f.op, f.arg,
                            IF normalized # None THEN normalized ELSE strip(f.arg))]
    /\ UNCHANGED <<normalizer, remembered, ranked_colleges, available_branches>>
    /\ UNCHANGED <<ingest_vars, auth_vars>>
    /\ UNCHANGED <<query_vars, user_vars>>

\* get_normalized_branches is entered: normalized_set = set()
EnterGetNormalizedBranches(t, branches) ==
    /\ Idle(t)
    /\ threads' = [threads EXCEPT ![t] =
                      [pc |-> "loop", op |-> "get_normalized_branches", arg |-> branches,
                       i |-> 1, acc |-> {}]]
    /\ UNCHANGED <<normalizer, remembered, ranked_colleges, available_branches>>
    /\ UNCHANGED <<ingest_vars, auth_vars>>
    /\ UNCHANGED <<query_vars, user_vars>>

\* get_all_branches_with_normalized is entered: result = [], seen_normalized = set()
EnterGetAllBranchesWithNormalized(t, branches) ==
    /\ Idle(t)
    /\ threads' = [threads EXCEPT ![t] =
                      [pc |-> "loop", op |-> "get_all_branches_with_normalized",
                       arg |-> branches, i |-> 1,
                       acc |-> [result |-> <<>>, seen_normalized |-> {}]]]
    /\ UNCHANGED <<normalizer, remembered, ranked_colleges, available_branches>>
    /\ UNCHANGED <<ingest_vars, auth_vars>>
    /\ UNCHANGED <<query_vars, user_vars>>

\* One pass of "for branch in branches" of either batch method.
LoopBody(t) ==
    /\ threads[t].pc = "loop"
    /\ threads[t].i <= Len(threads[t].arg)
    /\ LET f == threads[t]
           branch == f.arg[f.i]
       IN /\ threads' = [threads EXCEPT ![t] =
                 [f EXCEPT !.i = f.i + 1,
                           !.acc = IF f.op = "get_normalized_branches"
                                   THEN normalized_set_body(normalizer, f.acc, branch)
                                   ELSE with_normalized_body(normalizer, f.acc, branch)]]
          /\ normalizer' = IF Blank(branch) THEN normalizer
                           ELSE normalize_branch_effect(normalizer, branch)
    /\ UNCHANGED <<remembered, ranked_colleges, available_branches, query_vars, user_vars>>
    /\ UNCHANGED <<ingest_vars, auth_vars>>

\* The loop is over: the sorted list is returned.
LoopEnd(t) ==
    /\ threads[t].pc = "loop"
    /\ threads[t].i > Len(threads[t].arg)
    /\ LET f == threads[t]
       IN threads' = [threads EXCEPT ![t] =
              ReturnedFrame(f.op, f.arg,
                            IF f.op = "get_normalized_branches"
                            THEN SortedSet(f.acc)
                            ELSE sorted_by_normalized(f.acc.result))]
    /\ UNCHANGED <<normalizer, remembered, ranked_colleges, available_branches>>
    /\ UNCHANGED <<ingest_vars, auth_vars>>
    /\ UNCHANGED <<query_vars, user_vars>>

\* The category resolution of get_suggested_colleges (the locals
\* category_patterns and the level the query is filtered on).
resolve_category(caste, gender, seat_type, special_reservation) ==
    [category_patterns |-> CategoryPatterns(caste, gender, seat_type, special_reservation),
     level_filter |-> LevelFilter(seat_type)]

\* A thread runs the category resolution of one request.
EnterResolveCategory(t, p) ==
    /\ Idle(t)
    /\ threads' = [threads EXCEPT ![t] =
                      ReturnedFrame("resolve_category", p,
                                    resolve_category(p.caste, p.gender, p.seat_type,
                                                     p.special_reservation))]
    /\ UNCHANGED <<normalizer, remembered, ranked_colleges, available_branches>>
    /\ UNCHANGED <<ingest_vars, auth_vars>>
    /\ UNCHANGED <<query_vars, user_vars>>

\* The call of t, of the category resolution or of normalize_branch, has
\* returned and is the one kept for later comparison.
ReturnRemembered(t) ==
    /\ threads[t].pc = "returned"
    /\ threads[t].op \in {"normalize_branch", "resolve_category"}
    /\ remembered = NoCall
    /\ remembered' = [op |-> threads[t].op, arg |-> threads[t].arg, ret |-> threads[t].ret]
    /\ threads' = [threads EXCEPT ![t] = IdleFrame]
    /\ UNCHANGED <<normalizer, ranked_colleges, available_branches, query_vars, user_vars>>
    /\ UNCHANGED <<ingest_vars, auth_vars>>


----------------------------------------------------------------------------
(* Branch names of the model *)

n_Bio_dot_Technology == <<"B", "i", "o", ".", "T", "e", "c", "h", "n", "o", "l", "o", "g", "y">>
n_CSE_dash_Data_Science == <<"C", "o", "m", "p", "u", "t", "e", "r", " ", "S", "c", "i", "e", "n", "c", "e", " ", "a", "n", "d", " ", "E", "n", "g", "i", "n", "e", "e", "r", "i", "n", "g", " ", "-", " ", "D", "a", "t", "a", " ", "S", "c", "i", "e", "n", "c", "e">>
n_Electronics_amp_Telecommunication == <<"E", "l", "e", "c", "t", "r", "o", "n", "i", "c", "s", " ", " ", "&", " ", " ", "T", "e", "l", "e", "c", "o", "m", "m", "u", "n", "i", "c", "a", "t", "i", "o", "n">>
n_Civil_amp_infrastructure == <<"C", "i", "v", "i", "l", " ", "&", " ", "i", "n", "f", "r", "a", "s", "t", "r", "u", "c", "t", "u", "r", "e", " ", "E", "n", "g", "i", "n", "e", "e", "r", "i", "n", "g">>
n_Underwater_Basket_Weaving == <<"U", "n", "d", "e", "r", "w", "a", "t", "e", "r", " ", "B", "a", "s", "k", "e", "t", " ", "W", "e", "a", "v", "i", "n", "g">>
n_Zoology_padded == <<" ", " ", "Z", "o", "o", "l", "o", "g", "y", " ">>
n_aquaculture == <<"a", "q", "u", "a", "c", "u", "l", "t", "u", "r", "e">>
n_symbols_only == <<"(", "-", ")">>
n_empty == <<>>
n_spaces == <<" ", " ", " ">>
n_space_tab == <<" ", "\t">>
n_Computer_Engineering == <<"C", "o", "m", "p", "u", "t", "e", "r", " ", "E", "n", "g", "i", "n", "e", "e", "r", "i", "n", "g">>
n_computer_engineering_padded == <<"c", "o", "m", "p", "u", "t", "e", "r", " ", "e", "n", "g", "i", "n", "e", "e", "r", "i", "n", "g", " ">>
n_Mechanical_Engineering == <<"M", "e", "c", "h", "a", "n", "i", "c", "a", "l", " ", "E", "n", "g", "i", "n", "e", "e", "r", "i", "n", "g">>
n_MECHANICAL_ENGINEERING == <<"M", "E", "C", "H", "A", "N", "I", "C", "A", "L", " ", "E", "N", "G", "I", "N", "E", "E", "R", "I", "N", "G">>
n_Bio_Technology == <<"B", "i", "o", " ", "T", "e", "c", "h", "n", "o", "l", "o", "g", "y">>
k_CSE == <<"C", "S", "E">>
k_ME == <<"M", "E">>
k_CE == <<"C", "E">>
k_BT == <<"B", "T">>
k_ETC == <<"E", "T", "C">>
k_IT == <<"I", "T">>
k_5G == <<"5", "G">>

\* The longest list of names a batch method is given.
MaxNames == 3

\* The pairs of the table as the constructor leaves it.
TableItems == Items(self_branch_mappings)

Padded(s) == <<" ", "\t">> \o s \o <<"\n", " ">>

\* A variant as listed, in upper and in lower case, and with whitespace around.
VariantForms(v) == {v, upper(v), lower(v), Padded(v), Padded(upper(v))}

BranchNames ==
    UNION {VariantForms(TableItems[i].variation) : i \in 1..Len(TableItems)}
    \cup {n_Bio_dot_Technology, n_CSE_dash_Data_Science, n_Electronics_amp_Telecommunication,
          n_Civil_amp_infrastructure, n_Underwater_Basket_Weaving, n_Zoology_padded,
          n_aquaculture, n_symbols_only, n_empty, n_spaces, n_space_tab, k_CSE, None}

ListNames ==
    {n_Computer_Engineering, n_computer_engineering_padded, n_Mechanical_Engineering,
     n_spaces, n_Zoology_padded}

BranchLists ==
    UNION {[1..n -> ListNames] : n \in 0..MaxNames}
    \cup {<<n_Mechanical_Engineering, n_empty, b_Computer_Science, n_MECHANICAL_ENGINEERING>>,
          <<n_aquaculture, n_Zoology_padded, n_Bio_dot_Technology, n_Bio_Technology>>,
          <<b_Civil_Engineering, k_CE, n_Computer_Engineering>>}

SharedNames == {n_computer_engineering_padded, n_Bio_dot_Technology}

SharedLists == {<<n_Mechanical_Engineering, n_Computer_Engineering>>}

SharedProfiles == {Profile(i_SC, i_FEMALE, s_S, i_pwd)}

----------------------------------------------------------------------------
(* Specifications of the branch normalizer *)

\* One instance, constructed, and one caller that is in no call.
InitNormalizer ==
    /\ normalizer = BranchNormalizer
    /\ threads = [t \in {1} |-> IdleFrame]
    /\ remembered = NoCall
    /\ cutoffs = EmptyBag /\ NoAnswer /\ NoBranchListing /\ NoUsers /\ NoIngestion /\ NoAuth

NormalizeBranch == \E branch_name \in BranchNames : CallNormalizeBranch(1, branch_name)

GetNormalizedBranches == \E branches \in BranchLists : CallGetNormalizedBranches(1, branches)

GetAllBranchesWithNormalized ==
    \E branches \in BranchLists : CallGetAllBranchesWithNormalized(1, branches)

ReturnToCaller == Return(1)

NextNormalizer ==
    NormalizeBranch \/ GetNormalizedBranches \/ GetAllBranchesWithNormalized \/ ReturnToCaller

SpecNormalizer == InitNormalizer /\ [][NextNormalizer]_vars

\* One instance, constructed, shared by the threads.
InitShared ==
    /\ normalizer = BranchNormalizer
    /\ threads = [t \in Threads |-> IdleFrame]
    /\ remembered = NoCall
    /\ cutoffs = EmptyBag /\ NoAnswer /\ NoBranchListing /\ NoUsers /\ NoIngestion /\ NoAuth

ThreadEnters ==
    \E t \in Threads :
        \/ \E branch_name \in SharedNames : EnterNormalizeBranch(t, branch_name)
        \/ \E branches \in SharedLists : EnterGetNormalizedBranches(t, branches)
        \/ \E branches \in SharedLists : EnterGetAllBranchesWithNormalized(t, branches)
        \/ \E p \in SharedProfiles : EnterResolveCategory(t, p)

ThreadSteps == \E t \in Threads : Lookup(t) \/ Fuzzy(t) \/ LoopBody(t) \/ LoopEnd(t)

ThreadReturns == \E t \in Threads : Return(t) \/ ReturnRemembered(t)

NextShared == ThreadEnters \/ ThreadSteps \/ ThreadReturns

SpecShared == InitShared /\ [][NextShared]_vars

----------------------------------------------------------------------------
(* Properties of the branch normalizer *)

\* Thread t has returned from a call of op.
Returned(t, op) == threads[t].pc = "returned" /\ threads[t].op = op

\* The lower-cased variant texts of the table.
LoweredVariants == {lower(TableItems[i].variation) : i \in 1..Len(TableItems)}

\* The characters that separate the words of a name: whitespace and & ( ) , . -
Separators == Whitespace \cup {"&", "(", ")", ",", ".", "-"}

\* The words of s, as its characters that are no separators, each marked
\* with whether it starts a word other than the first.
Words(s) ==
    LET marked == [i \in 1..Len(s) |-> <<s[i], i > 1 /\ s[i - 1] \in Separators>>]
        letter(m) == m[1] \notin Separators
        letters == SelectSeq(marked, letter)
    IN [k \in 1..Len(letters) |-> IF k = 1 THEN <<letters[k][1], FALSE>> ELSE letters[k]]

\* The words of every variant of the table, lower-cased.
TableWords == [i \in 1..Len(TableItems) |-> Words(lower(TableItems[i].variation))]

\* The table positions whose variant equals s once the symbols are ignored.
SymbolMatches(s) == {i \in 1..Len(TableItems) : TableWords[i] = Words(lower(s))}

\* s is a str with at least one character that is no whitespace.
NonBlank(s) == s # None /\ \E i \in 1..Len(s) : s[i] \notin Whitespace

\* r is s without its leading and trailing whitespace, letter case kept.
TrimmedOf(s, r) ==
    \E i \in 1..Len(s) + 1, j \in 0..Len(s) :
        /\ r = SubSeq(s, i, j)
        /\ \A k \in 1..(i - 1) : s[k] \in Whitespace
        /\ \A k \in (j + 1)..Len(s) : s[k] \in Whitespace
        /\ r # <<>> => r[1] \notin Whitespace /\ r[Len(r)] \notin Whitespace

\* The code a name resolves to on a freshly constructed instance.
CodeOf(name) == normalize_branch(BranchNormalizer, name)

\* xs is strictly ascending: no duplicates, each str below the next.
Ascending(xs) == \A k \in 1..(Len(xs) - 1) : StrLess(xs[k], xs[k + 1])

\* C11: normalize_branch of a variant listed under a canonical code, in any
\* letter case and with surrounding whitespace, returns that code.
C11_VariantGivesItsCode ==
    \A t \in DOMAIN threads :
        Returned(t, "normalize_branch") =>
            \A i \in 1..Len(TableItems) :
                threads[t].arg \in VariantForms(TableItems[i].variation)
                    => threads[t].ret = TableItems[i].normalized

C11_Witness ==
    /\ Returned(1, "normalize_branch")
    /\ threads[1].arg = Padded(upper(n_Bio_Technology))
    /\ threads[1].ret = k_BT

\* C12: an input that is no exact variant resolves to the code of the first
\* pair in table order whose variant equals it once & ( ) , . - and the
\* amount of whitespace are ignored; 'and' against '&' does not match.
C12_FirstSymbolMatch ==
    \A t \in DOMAIN threads :
        (/\ Returned(t, "normalize_branch")
         /\ NonBlank(threads[t].arg)
         /\ lower(strip(threads[t].arg)) \notin LoweredVariants)
        => LET hits == SymbolMatches(threads[t].arg)
           IN /\ hits # {} =>
                    threads[t].ret =
                        TableItems[CHOOSE i \in hits : \A j \in hits : i <= j].normalized
              /\ threads[t].arg = n_Civil_amp_infrastructure =>
                    hits = {} /\ threads[t].ret = n_Civil_amp_infrastructure

C12_Witness ==
    /\ Returned(1, "normalize_branch")
    /\ threads[1].arg = n_Electronics_amp_Telecommunication
    /\ threads[1].ret = k_ETC

\* C13: normalize_branch never raises, and an input that matches no variant,
\* neither exactly nor with the symbols ignored, comes back with only its
\* leading and trailing whitespace removed.
C13_UnknownPassesThrough ==
    \A t \in DOMAIN threads :
        Returned(t, "normalize_branch") =>
            /\ threads[t].raised = "None"
            /\ (/\ NonBlank(threads[t].arg)
                /\ lower(strip(threads[t].arg)) \notin LoweredVariants
                /\ SymbolMatches(threads[t].arg) = {})
               => TrimmedOf(threads[t].arg, threads[t].ret)

C13_Witness ==
    /\ Returned(1, "normalize_branch")
    /\ threads[1].arg = n_Zoology_padded
    /\ threads[1].ret = <<"Z", "o", "o", "l", "o", "g", "y">>

\* C14 as stated: normalize_branch returns its argument unchanged, without
\* error, when the argument is empty or consists only of whitespace.
C14_BlankReturnedUnchanged ==
    \A t \in DOMAIN threads :
        (Returned(t, "normalize_branch") /\ ~NonBlank(threads[t].arg))
            => threads[t].ret = threads[t].arg /\ threads[t].raised = "None"

\* C14: normalize_branch returns an empty (or missing) argument unchanged and
\* returns the empty string for an argument of whitespace only, in both
\* cases without error.
C14_BlankGivesEmpty ==
    \A t \in DOMAIN threads :
        (Returned(t, "normalize_branch") /\ ~NonBlank(threads[t].arg))
            => /\ threads[t].raised = "None"
               /\ threads[t].arg \in {None, <<>>} => threads[t].ret = threads[t].arg
               /\ threads[t].arg \notin {None, <<>>} => threads[t].ret = <<>>

C14_Witness ==
    /\ Returned(1, "normalize_branch")
    /\ threads[1].arg = n_spaces
    /\ threads[1].ret = <<>>

\* C15: get_normalized_branches returns the codes of the non-blank names,
\* without duplicates and ascending; blank entries contribute nothing.
C15_SortedDistinctCodes ==
    \A t \in DOMAIN threads :
        Returned(t, "get_normalized_branches") =>
            LET branches == threads[t].arg
                ret == threads[t].ret
            IN /\ {ret[k] : k \in 1..Len(ret)} =
                      {CodeOf(branches[i]) : i \in {j \in 1..Len(branches) : NonBlank(branches[j])}}
               /\ Ascending(ret)
               /\ branches = <<n_Computer_Engineering, n_computer_engineering_padded,
                               n_Mechanical_Engineering>>
                      => ret = <<k_CSE, k_ME>>

C15_Witness ==
    /\ Returned(1, "get_normalized_branches")
    /\ threads[1].arg = <<n_Computer_Engineering, n_computer_engineering_padded,
                          n_Mechanical_Engineering>>
    /\ threads[1].ret = <<k_CSE, k_ME>>

\* C16: get_all_branches_with_normalized returns one (original, canonical)
\* pair per distinct code of the non-blank names, the original being the
\* first name in list order with that code, ordered by code ascending.
C16_FirstOriginalPerCode ==
    \A t \in DOMAIN threads :
        Returned(t, "get_all_branches_with_normalized") =>
            LET branches == threads[t].arg
                ret == threads[t].ret
                named == {j \in 1..Len(branches) : NonBlank(branches[j])}
            IN /\ {ret[k][2] : k \in 1..Len(ret)} = {CodeOf(branches[i]) : i \in named}
               /\ Ascending([k \in 1..Len(ret) |-> ret[k][2]])
               /\ \A k \in 1..Len(ret) :
                     \E i \in named :
                        /\ ret[k][1] = branches[i]
                        /\ CodeOf(branches[i]) = ret[k][2]
                        /\ \A j \in named : j < i => CodeOf(branches[j]) # ret[k][2]

C16_Witness ==
    /\ Returned(1, "get_all_branches_with_normalized")
    /\ threads[1].arg = <<n_computer_engineering_padded, n_spaces, n_Computer_Engineering>>
    /\ threads[1].ret = <<<<n_computer_engineering_padded, k_CSE>>>>

\* What a call returns when it runs alone on a freshly constructed instance.
RunAlone(op, arg) ==
    CASE op = "normalize_branch" -> normalize_branch(BranchNormalizer, arg)
      [] op = "get_normalized_branches" -> get_normalized_branches(BranchNormalizer, arg)
      [] op = "get_all_branches_with_normalized" ->
             get_all_branches_with_normalized(BranchNormalizer, arg)
      [] op = "resolve_category" ->
             resolve_category(arg.caste, arg.gender, arg.seat_type, arg.special_reservation)

\* Thread t has returned from the same call, with the same argument, as c.
SameCall(t, c) ==
    /\ threads[t].pc = "returned"
    /\ threads[t].op = c.op
    /\ threads[t].arg = c.arg

----------------------------------------------------------------------------
(* /available-branches and the branch filter of /college-details *)

\* if b[0] and b[0].strip() and len(b[0].strip()) > 1
Listed(branch) == Truthy(branch) /\ Truthy(strip(branch)) /\ Len(strip(branch)) > 1

\* all_branches without duplicates: the stripped branch of every distinct
\* Cutoff.branch and RankedCollege.branch that passes the condition
unique_branches(db, ranked) ==
    {strip(row.branch) : row \in {r \in BagToSet(db) : Listed(r.branch)}}
        \cup {strip(branch) : branch \in {b \in ranked : Listed(b)}}

\* list(set(all_branches)): the order of the list is the interpreter's choice
ListOfSet(S) ==
    {s \in [1..Cardinality(S) -> S] : \A x \in S : \E i \in 1..Cardinality(S) : s[i] = x}

\* GET /available-branches: the normalizer is constructed for the request
get_available_branches ==
    /\ request = NoRequest
    /\ \E listing \in ListOfSet(unique_branches(cutoffs, ranked_colleges)) :
          available_branches' = get_normalized_branches(BranchNormalizer, listing)
    /\ UNCHANGED <<cutoffs, ranked_colleges>>
    /\ UNCHANGED <<ingest_vars, auth_vars>>
    /\ UNCHANGED <<request, category_patterns, level_filter, colleges, raised, status>>
    /\ UNCHANGED <<normalizer_vars, user_vars>>

\* A row of ranked_colleges is stored; the listing reads its distinct branches.
InsertRankedCollege(branch) ==
    /\ request = NoRequest
    /\ branch \notin ranked_colleges
    /\ ranked_colleges' = ranked_colleges \cup {branch}
    /\ UNCHANGED <<cutoffs, available_branches>>
    /\ UNCHANGED <<ingest_vars, auth_vars>>
    /\ UNCHANGED <<request, category_patterns, level_filter, colleges, raised, status>>
    /\ UNCHANGED <<normalizer_vars, user_vars>>

b_Information_Technology == <<"I", "n", "f", "o", "r", "m", "a", "t", "i", "o", "n", " ", "T", "e", "c", "h", "n", "o", "l", "o", "g", "y">>

\* The cutoff rows of the branch listing: one category, level and rank, four
\* branches that are variants of the codes CSE, CE, ME and IT.
BranchRows ==
    {Row(c_GOPENH, s_home, 1, branch) :
        branch \in {b_Computer_Science, b_Civil_Engineering,
                    n_Mechanical_Engineering, b_Information_Technology}}

\* The branches of ranked_colleges: a variant of CSE and a one-letter name.
RankedBranches == {n_computer_engineering_padded, i_X}

InsertBranchRow == \E row \in BranchRows : InsertCutoff(row)

InsertRanked == \E branch \in RankedBranches : InsertRankedCollege(branch)

ListBranches == get_available_branches

\* /college-details asked with a branch that /available-branches has listed
DetailsOfListedBranch ==
    /\ available_branches # None
    /\ \E i \in 1..Len(available_branches) :
          get_college_details(1, i_open, i_male, i_h, None, None,
                              available_branches[i], DetailsDefaultLimit)

NextBranches ==
    InsertBranchRow \/ InsertRanked \/ ListBranches \/ DetailsOfListedBranch \/ get_db_close

SpecBranches == Init /\ [][NextBranches]_vars

\* The answer in hand is to /college-details with a listed code as branch.
AskedListedBranch ==
    /\ request # NoRequest
    /\ request.endpoint = "/college-details"
    /\ available_branches # None
    /\ \E i \in 1..Len(available_branches) : available_branches[i] = request.branch

\* The row passes every filter of the request other than the branch filter.
PassesOtherFilters(row) ==
    /\ RankFilter(row, request.rank)
    /\ CollegeCondition(row, request.college_name)
    /\ LevelCondition(row, level_filter)
    /\ CategoryCondition(row, category_patterns)

\* C17: with a code listed by /available-branches as branch, /college-details
\* finds every cutoff record whose stored branch is a variant of that code
\* (the records from which the code was derived).
C17_ListedCodeFindsItsRecords ==
    AskedListedBranch =>
        \A row \in BagToSet(cutoffs) :
            (/\ Listed(row.branch)
             /\ CodeOf(strip(row.branch)) = request.branch
             /\ PassesOtherFilters(row))
            => \E i \in 1..Len(colleges) : colleges[i] = row

----------------------------------------------------------------------------
(* GET and PUT /users/{user_id} *)

\* The most rows the users table holds in the model.
MaxUsers == 2

\* A role of a user: Role.name, Role.is_active
Role(name, is_active) == [name |-> name, is_active |-> is_active]

\* A row of users with its roles; the columns the two routes neither test
\* nor change in the model (email, phone, full_name, the dates) are left out.
User(id, is_active, roles) == [id |-> id, is_active |-> is_active, roles |-> roles]

\* No row: what .first() gives when no row has the id, and the body of an
\* answer that carries no user.
NoUser == [id |-> NULL]

\* UserCRUD.get_user(db, user_id): db.query(User).filter(User.id == user_id).first()
UserCRUD_get_user(db, user_id) ==
    IF user_id \in DOMAIN db THEN db[user_id] ELSE NoUser

\* [role.name for role in user.roles if role.is_active]
ActiveRoleNames(user) == {role.name : role \in {r \in user.roles : r.is_active}}

\* PermissionChecker.is_admin(user_roles)
is_admin(user_roles) == "admin" \in user_roles \/ "super_admin" \in user_roles

\* get_current_user: the user the token's sub names, HTTPException(401) when
\* the token is not valid, names no user or names an inactive one.  sub is
\* NULL for a token verify_token rejects.
get_current_user(db, sub) ==
    IF sub = NULL THEN [raised |-> 401]
    ELSE IF UserCRUD_get_user(db, sub) = NoUser THEN [raised |-> 401]
    ELSE IF ~UserCRUD_get_user(db, sub).is_active THEN [raised |-> 401]
    ELSE [raised |-> 0, user |-> UserCRUD_get_user(db, sub)]

\* self_or_admin_checker(path_user_id, current_user, db): what it raises, 0
\* when it returns current_user.  The path of the routes is /{user_id} and
\* user_id_param is not used, so path_user_id is bound to the query parameter
\* of that name and user_id, the path parameter, does not reach the checker.
self_or_admin_checker(current_user, path_user_id) ==
    IF current_user.id = path_user_id THEN 0
    ELSE IF is_admin(ActiveRoleNames(current_user)) THEN 0
    ELSE 403

\* Depends(require_self_or_admin()): get_current_user is solved first; a
\* request without the required query parameter path_user_id (NULL) is
\* answered 422 before the checker is called.
require_self_or_admin(db, sub, path_user_id, user_id) ==
    IF get_current_user(db, sub).raised # 0 THEN get_current_user(db, sub).raised
    ELSE IF path_user_id = NULL THEN 422
    ELSE self_or_admin_checker(get_current_user(db, sub).user, path_user_id)

\* UserResponse(...) with roles=role_names
UserResponse(user) ==
    [id |-> user.id, is_active |-> user.is_active, roles |-> ActiveRoleNames(user)]

\* The answer of a user route, with the request it answers.
Answered_user(method, sub, path_user_id, user_id, code, body, modified) ==
    [method |-> method, sub |-> sub, path_user_id |-> path_user_id,
     user_id |-> user_id, status |-> code, body |-> body, modified |-> modified]

\* GET /users/{user_id}
get_user(sub, path_user_id, user_id) ==
    LET refused == require_self_or_admin(users, sub, path_user_id, user_id)
        user == UserCRUD_get_user(users, user_id)
    IN /\ user_response' =
            IF refused # 0
            THEN Answered_user("GET", sub, path_user_id, user_id, refused, NoUser, FALSE)
            ELSE IF user = NoUser
            THEN Answered_user("GET", sub, path_user_id, user_id, 404, NoUser, FALSE)
            ELSE Answered_user("GET", sub, path_user_id, user_id, 200, UserResponse(user), FALSE)
       /\ UNCHANGED users
       /\ UNCHANGED <<query_vars, ranked_colleges, available_branches, normalizer_vars>>
       /\ UNCHANGED <<ingest_vars, auth_vars>>

\* UserCRUD.update_user(db, user_id, user_update): setattr for every field
\* that is set, then commit
UserCRUD_update_user(db, user_id, user_update) ==
    [db EXCEPT ![user_id] = [f \in DOMAIN db[user_id] |->
                                IF f \in DOMAIN user_update THEN user_update[f]
                                ELSE db[user_id][f]]]

\* PUT /users/{user_id}
update_user(sub, path_user_id, user_id, user_update) ==
    LET refused == require_self_or_admin(users, sub, path_user_id, user_id)
        written == UserCRUD_update_user(users, user_id, user_update)
    IN /\ users' = IF refused = 0 /\ user_id \in DOMAIN users THEN written ELSE users
       /\ user_response' =
            IF refused # 0
            THEN Answered_user("PUT", sub, path_user_id, user_id, refused, NoUser, FALSE)
            ELSE IF UserCRUD_get_user(users, user_id) = NoUser
            THEN Answered_user("PUT", sub, path_user_id, user_id, 404, NoUser, FALSE)
            ELSE Answered_user("PUT", sub, path_user_id, user_id, 200,
                               UserResponse(written[user_id]), written # users)
       /\ UNCHANGED <<query_vars, ranked_colleges, available_branches, normalizer_vars>>
       /\ UNCHANGED <<ingest_vars, auth_vars>>

\* UserCRUD.create_user with the role assignments that follow it
\* (assign_role_to_user): the row gets the next id, is_active = True and its
\* roles.
create_user(roles) ==
    /\ Len(users) < MaxUsers
    /\ users' = Append(users, User(Len(users) + 1, TRUE, roles))
    /\ UNCHANGED user_response
    /\ UNCHANGED <<query_vars, ranked_colleges, available_branches, normalizer_vars>>
    /\ UNCHANGED <<ingest_vars, auth_vars>>

\* The role sets of the users of the model.
RoleSets ==
    {{Role("user", TRUE), Role("admin", FALSE)}, {Role("admin", TRUE)}, {Role("super_admin", TRUE)}}

\* The ids a request names; the table may hold fewer rows.
UserIds == 1..MaxUsers

\* The body of a PUT in the model: UserUpdate(is_active=False)
UserUpdates == {[is_active |-> FALSE]}

CreateUser == \E roles \in RoleSets : create_user(roles)

GetUser ==
    \E sub \in UserIds \cup {NULL}, path_user_id \in UserIds \cup {NULL}, user_id \in UserIds :
        get_user(sub, path_user_id, user_id)

UpdateUser ==
    \E sub \in UserIds \cup {NULL}, path_user_id \in UserIds \cup {NULL}, user_id \in UserIds,
       user_update \in UserUpdates :
        update_user(sub, path_user_id, user_id, user_update)

NextUsers == CreateUser \/ GetUser \/ UpdateUser

SpecUsers == Init /\ [][NextUsers]_vars

\* The caller of the answered request is authenticated: the token names an
\* active user.  (An answer other than 401 says so: the users the token can
\* name keep their id, and the dependency has just found this one active.)
AuthenticatedCaller ==
    /\ user_response # NoResponse
    /\ user_response.status # 401

\* The caller is the user of the path or holds an active admin or super_admin
\* role.
SelfOrAdmin ==
    \/ user_response.sub = user_response.user_id
    \/ is_admin(ActiveRoleNames(users[user_response.sub]))

\* C18: GET and PUT /users/{user_id} succeed only for the user of the path or
\* an active admin or super_admin; every other authenticated caller is refused
\* with 403, and the target user is neither disclosed nor modified.
C18_OnlySelfOrAdmin ==
    (AuthenticatedCaller /\ ~SelfOrAdmin)
    => /\ user_response.status = 403
       /\ user_response.body = NoUser
       /\ ~user_response.modified

----------------------------------------------------------------------------
(* The examples of the module docstring *)

n_Computer_Science_and_Engineering == <<"C", "o", "m", "p", "u", "t", "e", "r", " ", "S", "c", "i", "e", "n", "c", "e", " ", "a", "n", "d", " ", "E", "n", "g", "i", "n", "e", "e", "r", "i", "n", "g">>

\* A returned call of normalize_branch with this argument has this result.
Example(branch_name, code) ==
    \A t \in DOMAIN threads :
        (Returned(t, "normalize_branch") /\ threads[t].arg = branch_name)
            => threads[t].ret = code /\ threads[t].raised = "None"

----------------------------------------------------------------------------
(* The PDF parser: the lines *)

Digits == {"0", "1", "2", "3", "4", "5", "6", "7", "8", "9"}

DigitValue ==
    ("0" :> 0) @@ ("1" :> 1) @@ ("2" :> 2) @@ ("3" :> 3) @@ ("4" :> 4) @@
    ("5" :> 5) @@ ("6" :> 6) @@ ("7" :> 7) @@ ("8" :> 8) @@ ("9" :> 9)

\* [A-Z0-9]
UpperOrDigit == {UpperChars[i] : i \in 1..26} \cup Digits

\* s[from:] of Python, from counted from 0
From(s, from) == SubSeq(s, from + 1, Len(s))

\* s.startswith(prefix)
StartsWith(s, prefix) == Len(s) >= Len(prefix) /\ SubSeq(s, 1, Len(prefix)) = prefix

\* \d+ matches all of s
AllDigits(s) == s # <<>> /\ \A i \in 1..Len(s) : s[i] \in Digits

\* int(s) for a str of decimal digits
RECURSIVE int(_)
int(s) ==
    IF s = <<>> THEN 0
    ELSE 10 * int(SubSeq(s, 1, Len(s) - 1)) + DigitValue[s[Len(s)]]

\* s.split(): the maximal runs of characters that are no whitespace
split(s) ==
    LET starts == {i \in 1..Len(s) : s[i] \notin Whitespace /\ (i = 1 \/ s[i - 1] \in Whitespace)}
        end(i) == CHOOSE j \in i..Len(s) :
                      /\ \A k \in i..j : s[k] \notin Whitespace
                      /\ (j = Len(s) \/ s[j + 1] \in Whitespace)
        nth(k) == CHOOSE i \in starts : Cardinality({j \in starts : j < i}) = k - 1
    IN [k \in 1..Cardinality(starts) |-> SubSeq(s, nth(k), end(nth(k)))]

\* " ".join(words)
RECURSIVE join(_)
join(words) ==
    IF words = <<>> THEN <<>>
    ELSE IF Len(words) = 1 THEN words[1]
    ELSE words[1] \o <<" ">> \o join(Tail(words))

s_dash == <<" ", "-", " ">>

\* COLLEGE_LINE_PATTERN = ^\d{5} - : is_college_line
is_college_line(line) ==
    /\ Len(line) >= 8
    /\ \A i \in 1..5 : line[i] \in Digits
    /\ SubSeq(line, 6, 8) = s_dash

\* COURSE_LINE_PATTERN = ^\d{10} - : is_course_line
is_course_line(line) ==
    /\ Len(line) >= 13
    /\ \A i \in 1..10 : line[i] \in Digits
    /\ SubSeq(line, 11, 13) = s_dash

s_Stage == <<"S", "t", "a", "g", "e">>
s_Stage_I == <<"S", "t", "a", "g", "e", "-", "I">>
s_Stage_II == <<"S", "t", "a", "g", "e", "-", "I", "I">>

\* CATEGORY_LINE_PATTERN = ^Stage\s+[A-Z0-9]+(?:\s+[A-Z0-9]+)*$, matched
\* against a stripped line: is_category_line
is_category_line(line) ==
    /\ Len(split(line)) >= 2
    /\ split(line)[1] = s_Stage
    /\ StartsWith(line, s_Stage)
    /\ \A k \in 2..Len(split(line)) :
          \A i \in 1..Len(split(line)[k]) : split(line)[k][i] \in UpperOrDigit

\* RANK_LINE_PATTERN = ^I\s+(\d+(?:\s+\d+)*)$: is_rank_line
is_rank_line(line) ==
    /\ Len(split(line)) >= 2
    /\ split(line)[1] = <<"I">>
    /\ StartsWith(line, <<"I">>)
    /\ \A k \in 2..Len(split(line)) : AllDigits(split(line)[k])

\* SKIP_KEYWORDS, VALID_KEYWORDS, lower-cased
skip_lower ==
    {<<"p", "o", "l", "y", "t", "e", "c", "h", "n", "i", "c">>, <<"d", "i", "p", "l", "o", "m", "a">>,
     <<"i", "t", "i">>, <<"m", "s", "b", "t", "e">>}

valid_lower ==
    {<<"c", "o", "l", "l", "e", "g", "e">>, <<"i", "n", "s", "t", "i", "t", "u", "t", "e">>,
     <<"e", "n", "g", "i", "n", "e", "e", "r", "i", "n", "g">>,
     <<"t", "e", "c", "h", "n", "o", "l", "o", "g", "y">>}

\* is_valid_college_line
is_valid_college_line(line) ==
    /\ is_college_line(line)
    /\ ~\E word \in skip_lower : Contains(lower(line), word)
    /\ \E word \in valid_lower : Contains(lower(line), word)

\* PERCENT_PATTERN.findall(line), PERCENT_PATTERN = \(([\d.]+)\): the texts
\* between "(" and the next ")" that are one or more digits and dots, from
\* left to right
percent_matches(line) ==
    LET inside(i, j) == /\ j > i + 1
                        /\ line[j] = ")"
                        /\ \A k \in (i + 1)..(j - 1) : line[k] \in Digits \cup {"."}
        opens == {i \in 1..Len(line) : line[i] = "(" /\ \E j \in (i + 1)..Len(line) : inside(i, j)}
        close(i) == CHOOSE j \in (i + 1)..Len(line) : inside(i, j)
        nth(k) == CHOOSE i \in opens : Cardinality({j \in opens : j < i}) = k - 1
    IN [k \in 1..Cardinality(opens) |-> SubSeq(line, nth(k) + 1, close(nth(k)) - 1)]

\* line.split(" - ", 1)[1].strip() of a course line
branch_of_course_line(line) ==
    LET at == CHOOSE i \in 1..(Len(line) - 2) :
                  /\ SubSeq(line, i, i + 2) = s_dash
                  /\ \A j \in 1..(i - 1) : SubSeq(line, j, j + 2) # s_dash
    IN strip(From(line, at + 2))

----------------------------------------------------------------------------
(* The lines of the documents of the model *)

l_college_A == <<"0", "1", "0", "0", "2", " ", "-", " ", "C", "o", "l", "l", "e", "g", "e", " ", "o", "f", " ", "E", "n", "g", "i", "n", "e", "e", "r", "i", "n", "g", ",", " ", "P", "u", "n", "e">>
l_college_B == <<"0", "1", "0", "0", "5", " ", "-", " ", "G", "o", "v", "e", "r", "n", "m", "e", "n", "t", " ", "P", "o", "l", "y", "t", "e", "c", "h", "n", "i", "c", ",", " ", "P", "u", "n", "e">>
l_college_C == <<"0", "1", "0", "0", "7", " ", "-", " ", "A", "c", "a", "d", "e", "m", "y", " ", "o", "f", " ", "A", "r", "t", "s", ",", " ", "P", "u", "n", "e">>
l_course_civil == <<"0", "1", "0", "0", "2", "1", "9", "1", "1", "0", " ", "-", " ", "C", "i", "v", "i", "l", " ", "E", "n", "g", "i", "n", "e", "e", "r", "i", "n", "g">>
l_course_computer == <<"0", "1", "0", "0", "5", "2", "4", "2", "1", "0", " ", "-", " ", "C", "o", "m", "p", "u", "t", "e", "r", " ", "E", "n", "g", "i", "n", "e", "e", "r", "i", "n", "g">>
l_stage_I == <<"S", "t", "a", "g", "e", "-", "I">>
l_stage_II == <<"S", "t", "a", "g", "e", "-", "I", "I">>
l_categories_open == <<"S", "t", "a", "g", "e", " ", "G", "O", "P", "E", "N", "H", " ", "G", "O", "P", "E", "N", "S">>
l_categories_other == <<"S", "t", "a", "g", "e", " ", "G", "O", "P", "E", "N", "O", " ", "G", "V", "J", "H">>
l_ranks == <<"I", " ", "1", " ", "2">>
l_rank == <<"I", " ", "2">>
l_percents == <<"(", "9", "9", ".", "5", ")", " ", "(", "9", "8", ".", "1", ")">>
l_header == <<"D", " ", "G", "o", "v", "e", "r", "n", "m", "e", "n", "t", " ", "o", "f", " ", "M", "a", "h", "a", "r", "a", "s", "h", "t", "r", "a">>
n_College_A == <<"C", "o", "l", "l", "e", "g", "e", " ", "o", "f", " ", "E", "n", "g", "i", "n", "e", "e", "r", "i", "n", "g", ",", " ", "P", "u", "n", "e">>
c_GOPENO == <<"G", "O", "P", "E", "N", "O">>
c_GVJH == <<"G", "V", "J", "H">>

----------------------------------------------------------------------------
(* The PDF parser: extract_cutoffs_from_pdf *)

\* college_obj = None
NoCollege == [id |-> NULL]

\* College(code=code, name=name, ...): the columns status, university and
\* region, all "Unknown", are left out
College(id, code, name) == [id |-> id, code |-> code, name |-> name]

\* get_or_create_college(db, college_line): the college it returns and the
\* colleges table after it.  The table gives a new row the next id.
get_or_create_college(table, college_line) ==
    IF ~(is_college_line(college_line) /\ Len(college_line) >= 9)
    THEN [college |-> NoCollege, table |-> table]
    ELSE LET code == int(SubSeq(college_line, 1, 5))
             name == strip(From(college_line, 8))
             found == {i \in 1..Len(table) : table[i].code = code /\ table[i].name = name}
         IN IF found # {}
            THEN [college |-> table[CHOOSE i \in found : \A j \in found : i <= j], table |-> table]
            ELSE [college |-> College(Len(table) + 1, code, name),
                  table |-> Append(table, College(Len(table) + 1, code, name))]

\* The locals of extract_cutoffs_from_pdf before the first page, with the
\* session's new objects.  rank_line = None is the empty list here: the code
\* only tests whether rank_line is true, and a rank line has a rank.  The two
\* counters processed_count and skipped_count are only printed.
LocalsAtStart ==
    [pc |-> "reading", college_obj |-> NoCollege, branch |-> None, college_line |-> <<>>,
     current_category_line |-> <<>>, rank_line |-> <<>>, stage_marker |-> s_Stage_I,
     db_new |-> EmptyBag]

\* stage_marker = "Stage-I" if "Stage-I" in line else "Stage-II"
stage_marker_of(line) == IF Contains(line, s_Stage_I) THEN s_Stage_I ELSE s_Stage_II

\* gender = "female" if "L" in cat else "male"
gender_of(cat) ==
    IF Contains(cat, <<"L">>) THEN <<"f", "e", "m", "a", "l", "e">> ELSE <<"m", "a", "l", "e">>

\* if "S" in cat: "state" elif "O" in cat: "other" elif "H" in cat: "home"
\* else: "state"
level_of(cat) ==
    IF Contains(cat, <<"S">>) THEN s_state
    ELSE IF Contains(cat, <<"O">>) THEN s_other
    ELSE IF Contains(cat, <<"H">>) THEN s_home
    ELSE s_state

\* Cutoff(college_id=..., ..., year=2024) with the college name the queries
\* join to it; course_code (0), percent and year (2024) are left out
Cutoff(college_obj, branch, cat, rank, stage_marker) ==
    [college_id |-> college_obj.id, college_code |-> college_obj.code,
     college |-> college_obj.name, branch |-> branch, category |-> cat, rank |-> rank,
     gender |-> gender_of(cat), level |-> level_of(cat), stage |-> stage_marker]

\* for i, cat in enumerate(categories): the cutoffs the percent line adds to
\* the session (rank = rank_line[i] if i < len(rank_line) else None, and the
\* cutoff is added if college_obj and branch and rank)
cutoffs_of_percent_line(p) ==
    LET categories == split(p.current_category_line)
        kept == {i \in 1..Len(categories) :
                    /\ p.college_obj # NoCollege
                    /\ Truthy(p.branch)
                    /\ i <= Len(p.rank_line)
                    /\ p.rank_line[i] # 0}
    IN [i \in kept |-> Cutoff(p.college_obj, p.branch, categories[i], p.rank_line[i], p.stage_marker)]

\* The bag of the values of f
BagOfValues(f) ==
    [row \in {f[i] : i \in DOMAIN f} |-> Cardinality({i \in DOMAIN f : f[i] = row})]

\* The header lines that are skipped
Headers ==
    {<<"D", " ", "G", "o", "v", "e", "r", "n", "m", "e", "n", "t">>,
     <<"i", " ", "S", "t", "a", "t", "e", " ", "C", "o", "m", "m", "o", "n">>,
     <<"r", " ", "C", "u", "t", " ", "O", "f", "f", " ", "L", "i", "s", "t">>}

\* One pass of the loop over the lines: the locals and the colleges table
\* after the line.  unicodedata.normalize("NFKC", ...) leaves the ASCII text
\* of the model's lines as it is.
process_line(p, table, raw) ==
    LET line == strip(raw)
    IN  IF line = <<>> \/ \E h \in Headers : StartsWith(line, h)
        THEN [locals |-> p, table |-> table]
        ELSE IF is_valid_college_line(line)
        THEN [locals |-> [p EXCEPT !.college_line = line,
                                   !.college_obj = get_or_create_college(table, line).college],
              table |-> get_or_create_college(table, line).table]
        ELSE IF is_course_line(line)
        THEN [locals |-> [p EXCEPT !.branch = branch_of_course_line(line)], table |-> table]
        ELSE IF Contains(line, s_Stage_I) \/ Contains(line, s_Stage_II)
        THEN [locals |-> [p EXCEPT !.stage_marker = stage_marker_of(line)], table |-> table]
        ELSE IF is_category_line(line)
        THEN [locals |-> [p EXCEPT !.current_category_line = join(Tail(split(line)))],
              table |-> table]
        ELSE IF is_rank_line(line)
        THEN [locals |-> [p EXCEPT !.rank_line =
                             [k \in 1..(Len(split(line)) - 1) |-> int(split(line)[k + 1])]],
              table |-> table]
        ELSE IF percent_matches(line) # <<>> /\ p.rank_line # <<>> /\ p.current_category_line # <<>>
        THEN [locals |-> [p EXCEPT !.db_new = p.db_new (+) BagOfValues(cutoffs_of_percent_line(p)),
                                   !.rank_line = <<>>],
              table |-> table]
        ELSE [locals |-> p, table |-> table]

\* What the lines read so far say: how many they are, the last college line
\* (accepted or not), the last course line after it, the stage the last stage
\* line names, and the cutoffs the last line added to the session.
NothingRead ==
    [lines |-> 0, college_line |-> <<>>, course_line |-> <<>>, stage_named |-> <<>>,
     added |-> EmptyBag]

Read(doc, p, raw) ==
    LET line == strip(raw)
        is_college == is_college_line(line)
        is_course == ~is_college /\ is_course_line(line)
    IN [lines |-> doc.lines + 1,
        college_line |-> IF is_college THEN line ELSE doc.college_line,
        course_line |-> IF is_college THEN <<>> ELSE IF is_course THEN line ELSE doc.course_line,
        stage_named |-> IF Contains(line, s_Stage_II) THEN s_Stage_II
                        ELSE IF Contains(line, s_Stage_I) THEN s_Stage_I
                        ELSE doc.stage_named,
        added |-> IF process_line(p, <<>>, raw).locals.db_new = p.db_new THEN EmptyBag
                  ELSE BagOfValues(cutoffs_of_percent_line(p))]

\* The most lines a document of the model has.
MaxLines == 6

\* with pdfplumber.open(file_path) as pdf
open_pdf ==
    /\ parser = NoParser
    /\ parser' = LocalsAtStart
    /\ UNCHANGED <<college_table, document>>
    /\ UNCHANGED <<query_vars, normalizer_vars, ranked_colleges, available_branches>>
    /\ UNCHANGED <<user_vars, auth_vars>>

\* for line_num, line in enumerate(lines): one line of the document
read_line(raw) ==
    /\ parser.pc = "reading"
    /\ document.lines < MaxLines
    /\ parser' = process_line(parser, college_table, raw).locals
    /\ college_table' = process_line(parser, college_table, raw).table
    /\ document' = Read(document, parser, raw)
    /\ UNCHANGED <<query_vars, normalizer_vars, ranked_colleges, available_branches>>
    /\ UNCHANGED <<user_vars, auth_vars>>

\* db.commit() after the last page: the session's new cutoffs are stored
final_commit ==
    /\ parser.pc = "reading"
    /\ cutoffs' = cutoffs (+) parser.db_new
    /\ parser' = [pc |-> "done"]
    /\ UNCHANGED <<college_table, document>>
    /\ UNCHANGED <<request, category_patterns, level_filter, colleges, raised, status>>
    /\ UNCHANGED <<normalizer_vars, ranked_colleges, available_branches>>
    /\ UNCHANGED <<user_vars, auth_vars>>

\* The lines a document of the model is made of.
DocumentLines ==
    {l_college_A, l_college_B, l_course_civil, l_course_computer, l_stage_II,
     l_categories_open, l_categories_other, l_ranks, l_percents, l_header}

OpenPdf == open_pdf

ReadLine == \E raw \in DocumentLines : read_line(raw)

FinalCommit == final_commit

\* GET /recommend for an OPEN, MALE, home-university student, once the
\* ingestion has committed
RecommendIngested ==
    /\ parser.pc = "done"
    /\ \E rank \in 1..MaxRank :
          recommend_colleges(rank, i_OPEN, s_MALE, s_H, None, DetailsDefaultLimit)

NextIngest == OpenPdf \/ ReadLine \/ FinalCommit \/ RecommendIngested \/ get_db_close

SpecIngest == Init /\ [][NextIngest]_vars

\* The category is a gender letter, a caste and a seat letter: G or L first,
\* H, O or S last.
RegularCategory(cat) ==
    /\ Len(cat) >= 3
    /\ cat[1] \in {"G", "L"}
    /\ cat[Len(cat)] \in {"H", "O", "S"}

\* The level the query filters on for the seat letter of the category.
QueriedLevel(cat) == LevelFilter(<<cat[Len(cat)]>>)

\* The answer in hand is to /recommend for an OPEN, MALE, H student.
AnsweredOpenMaleHome ==
    /\ request # NoRequest
    /\ request.endpoint = "/recommend"
    /\ Normalize(request.caste) = i_OPEN
    /\ Normalize(request.gender) = s_MALE
    /\ Normalize(request.seat_type) = s_H

\* C22: every ingested cutoff with a category G/L{caste}{seat} is stored with
\* the level the query derives from the same seat letter (H -> home,
\* O -> other, S -> state), so an ingested GOPENH cutoff with rank >= r is in
\* the answer of get_suggested_colleges(r, 'OPEN', 'MALE', 'H') unless the
\* limit cuts it off.
C22_StoredLevelIsQueriedLevel ==
    /\ \A row \in BagToSet(cutoffs) :
          RegularCategory(row.category) => row.level = QueriedLevel(row.category)
    /\ AnsweredOpenMaleHome =>
          \A row \in BagToSet(cutoffs) :
              (row.category = c_GOPENH /\ row.rank >= request.rank /\ Len(colleges) < request.limit)
              => \E i \in 1..Len(colleges) : colleges[i] = row

\* The stage the most recent stage line names: 'Stage-II' for a line that
\* contains it, 'Stage-I' for a line that contains 'Stage-I' only, and
\* 'Stage-I' before the first such line.
StageNamed == IF document.stage_named = <<>> THEN s_Stage_I ELSE document.stage_named

\* C23: while parsing, the stage marker is the stage the most recent stage line
\* names ('Stage-II' for a line containing it, 'Stage-I' for a line containing
\* 'Stage-I' but not 'Stage-II', 'Stage-I' initially), and every cutoff stored
\* carries that marker.
C23_StageOfMostRecentStageLine ==
    /\ parser.pc = "reading" => parser.stage_marker = StageNamed
    /\ \A row \in BagToSet(document.added) : row.stage = StageNamed

\* The code and the name a college line gives.
CollegeCodeOfLine(line) == int(SubSeq(line, 1, 5))

CollegeNameOfLine(line) == strip(From(line, 8))

\* C24: every cutoff stored belongs to the college named by the nearest
\* preceding college line of the document, accepted by the keyword filter or
\* not, and to the branch named by the nearest preceding course line that
\* follows that college line.
C24_NearestCollegeAndCourse ==
    \A row \in BagToSet(document.added) :
        /\ document.college_line # <<>>
        /\ row.college_code = CollegeCodeOfLine(document.college_line)
        /\ row.college = CollegeNameOfLine(document.college_line)
        /\ document.course_line # <<>>
        /\ row.branch = branch_of_course_line(document.course_line)

-----------------------------------------------------------------------------
(* Accounts: registration, login, tokens and the soft delete *)

\* NULL in the phone column, None in Python.
NullPhone == "NULL"

\* str(n) of a non-negative int: its decimal digits
RECURSIVE str(_)
str(n) ==
    LET digit == CHOOSE d \in Digits : DigitValue[d] = n % 10
    IN IF n < 10 THEN <<digit>> ELSE str(n \div 10) \o <<digit>>

\* AuthUtils.hash_password: the bcrypt hash of the password; the hash of one
\* password verifies no other password.
hash_password(password) == <<"bcrypt", password>>

\* AuthUtils.verify_password
verify_password(plain_password, hashed_password) ==
    hashed_password = hash_password(plain_password)

\* A row of users as create_user writes it, with the defaults of the columns.
Account(id, email, phone, password, roles) ==
    [id |-> id, email |-> email, phone |-> phone,
     password_hash |-> hash_password(password),
     is_active |-> TRUE, login_count |-> 0, last_login |-> NULL, roles |-> roles]

\* UserCRUD.get_user_by_email: db.query(User).filter(User.email == email).first()
get_user_by_email(db, email) ==
    IF \E i \in DOMAIN db : db[i].email = email
    THEN db[CHOOSE i \in DOMAIN db :
                /\ db[i].email = email
                /\ \A j \in DOMAIN db : db[j].email = email => i <= j]
    ELSE NoUser

\* UserCRUD.get_user_by_phone
get_user_by_phone(db, phone) ==
    IF \E i \in DOMAIN db : db[i].phone = phone
    THEN db[CHOOSE i \in DOMAIN db :
                /\ db[i].phone = phone
                /\ \A j \in DOMAIN db : db[j].phone = phone => i <= j]
    ELSE NoUser

\* The roles create_user assigns: the default role 'user' when the table of
\* roles has one.
default_roles(role_rows) ==
    {role_rows[i].id : i \in {j \in DOMAIN role_rows : role_rows[j].name = "user"}}

\* UserCRUD.create_user, run alone: what it raises (0 when it returns the
\* user) and the users table it leaves.
UserCRUD_create_user(db, role_rows, user) ==
    IF get_user_by_email(db, user.email) # NoUser THEN [raised |-> 400, db |-> db]
    ELSE IF user.phone # NullPhone /\ get_user_by_phone(db, user.phone) # NoUser
    THEN [raised |-> 400, db |-> db]
    ELSE [raised |-> 0,
          db |-> Append(db, Account(Len(db) + 1, user.email, user.phone, user.password,
                                    default_roles(role_rows)))]

\* authenticate_user without the test of is_active.
authenticate_user_of_inactive(db, email, password, now) ==
    LET user == get_user_by_email(db, email)
        logged == [user EXCEPT !.login_count = @ + 1, !.last_login = now]
    IN IF user = NoUser THEN [user |-> NoUser, db |-> db]
       ELSE IF ~verify_password(password, user.password_hash) THEN [user |-> NoUser, db |-> db]
       ELSE [user |-> logged, db |-> [db EXCEPT ![user.id] = logged]]

\* UserCRUD.authenticate_user, run alone: the user it returns (NoUser for
\* None) and the users table it leaves.  now is datetime.utcnow().
authenticate_user(db, email, password, now) ==
    LET user == get_user_by_email(db, email)
        logged == [user EXCEPT !.login_count = @ + 1, !.last_login = now]
    IN IF user = NoUser THEN [user |-> NoUser, db |-> db]
       ELSE IF ~user.is_active THEN [user |-> NoUser, db |-> db]
       ELSE IF ~verify_password(password, user.password_hash) THEN [user |-> NoUser, db |-> db]
       ELSE [user |-> logged, db |-> [db EXCEPT ![user.id] = logged]]

\* UserCRUD.delete_user: what it raises and the users table it leaves.
UserCRUD_delete_user(db, user_id) ==
    IF UserCRUD_get_user(db, user_id) = NoUser THEN [raised |-> 404, db |-> db]
    ELSE [raised |-> 0, db |-> [db EXCEPT ![user_id].is_active = FALSE]]

\* AuthUtils.create_access_token(data={"sub": str(user.id), "email": user.email})
create_access_token(user) == [sub |-> str(user.id), email |-> user.email]

\* AuthUtils.verify_token and payload.get("sub") as the query binds it to
\* users.id: NULL for a token that is not one of the issued, unexpired ones.
verify_token(issued, credentials) ==
    IF credentials \in issued THEN int(credentials.sub) ELSE NULL

\* The answer of an account route, with the request it answers.
Answered_account(route, input, code, body) ==
    [route |-> route, input |-> input, status |-> code, body |-> body]

\* POST /register
register_user(user) ==
    LET created == UserCRUD_create_user(users, role_table, user)
    IN /\ users' = created.db
       /\ user_response' =
            Answered_account("POST /register", user,
                             IF created.raised = 0 THEN 200 ELSE created.raised,
                             IF created.raised = 0 THEN created.db[Len(created.db)] ELSE NoUser)
       /\ UNCHANGED <<query_vars, ranked_colleges, available_branches, normalizer_vars>>
       /\ UNCHANGED <<ingest_vars, auth_vars>>

\* The logins the model counts for one user.
MaxLogins == 2

\* POST /login
login_user(email, password, now) ==
    LET authenticated == authenticate_user(users, email, password, now)
    IN /\ \A i \in DOMAIN users : users[i].login_count < MaxLogins
       /\ users' = authenticated.db
       /\ tokens' = IF authenticated.user = NoUser THEN tokens
                    ELSE tokens \cup {create_access_token(authenticated.user)}
       /\ user_response' =
            Answered_account("POST /login", [email |-> email, password |-> password],
                             IF authenticated.user = NoUser THEN 401 ELSE 200,
                             authenticated.user)
       /\ UNCHANGED role_table
       /\ UNCHANGED <<query_vars, ranked_colleges, available_branches, normalizer_vars>>
       /\ UNCHANGED ingest_vars

\* GET /me
get_current_user_info(credentials) ==
    LET current_user == get_current_user(users, verify_token(tokens, credentials))
    IN /\ user_response' =
            Answered_account("GET /me", credentials,
                             IF current_user.raised = 0 THEN 200 ELSE current_user.raised,
                             IF current_user.raised = 0 THEN current_user.user ELSE NoUser)
       /\ UNCHANGED users
       /\ UNCHANGED <<query_vars, ranked_colleges, available_branches, normalizer_vars>>
       /\ UNCHANGED <<ingest_vars, auth_vars>>

\* DELETE /users/{user_id}, asked by a user who holds delete:users
delete_user(user_id) ==
    LET deleted == UserCRUD_delete_user(users, user_id)
    IN /\ users' = deleted.db
       /\ user_response' =
            Answered_account("DELETE /users/{user_id}", user_id,
                             IF deleted.raised = 0 THEN 200 ELSE deleted.raised, NoUser)
       /\ UNCHANGED <<query_vars, ranked_colleges, available_branches, normalizer_vars>>
       /\ UNCHANGED <<ingest_vars, auth_vars>>

\* PUT /users/{user_id} with is_active = true, asked by an admin
reactivate_user(user_id) ==
    /\ user_id \in DOMAIN users
    /\ users' = UserCRUD_update_user(users, user_id, [is_active |-> TRUE])
    /\ user_response' =
         Answered_account("PUT /users/{user_id}", user_id, 200,
                          UserCRUD_update_user(users, user_id, [is_active |-> TRUE])[user_id])
    /\ UNCHANGED <<query_vars, ranked_colleges, available_branches, normalizer_vars>>
    /\ UNCHANGED <<ingest_vars, auth_vars>>

\* The 30 minutes of a token are over.
token_expires(token) ==
    /\ token \in tokens
    /\ tokens' = tokens \ {token}
    /\ UNCHANGED role_table
    /\ UNCHANGED <<query_vars, ranked_colleges, available_branches, normalizer_vars>>
    /\ UNCHANGED <<user_vars, ingest_vars>>

e_asha == "asha@example.com"

e_ravi == "ravi@example.com"

\* The registrations of the model.
Registrations ==
    {[email |-> e_asha, phone |-> NullPhone, password |-> "password-a"],
     [email |-> e_ravi, phone |-> NullPhone, password |-> "password-r"]}

Emails == {r.email : r \in Registrations}

Passwords == {r.password : r \in Registrations}

\* The readings of the clock.
Times == {1, 2}

\* The tokens a request can bear: one for each row the table can hold, issued
\* or not.
Credentials ==
    {[sub |-> str(i), email |-> e] : i \in 1..Cardinality(Registrations), e \in Emails}

RegisterUser == \E user \in Registrations : register_user(user)

LoginUser == \E email \in Emails, password \in Passwords, now \in Times :
                login_user(email, password, now)

GetCurrentUserInfo == \E credentials \in Credentials : get_current_user_info(credentials)

DeleteUser == \E user_id \in 1..Cardinality(Registrations) : delete_user(user_id)

ReactivateUser == \E user_id \in 1..Cardinality(Registrations) : reactivate_user(user_id)

TokenExpires == \E token \in Credentials : token_expires(token)

NextAccounts ==
    RegisterUser \/ LoginUser \/ GetCurrentUserInfo \/ DeleteUser \/ ReactivateUser
        \/ TokenExpires

SpecAccounts == Init /\ [][NextAccounts]_vars

\* The users delete_user has deleted and nobody has reactivated.
Deleted == {i \in DOMAIN users : ~users[i].is_active}

\* The tokens issued to a user that are still within their 30 minutes.
TokensOf(i) == {token \in tokens : token.sub = str(i)}

\* C25: delete_user keeps the row and sets is_active to false; while a user is
\* inactive authenticate_user returns None for it whatever the password, the
\* correct one included, and a request bearing a token issued to it is
\* answered 401.
C25_SoftDelete ==
    /\ (/\ user_response.status = 200
        /\ user_response.route = "DELETE /users/{user_id}")
          => user_response.input \in Deleted
    /\ \A i \in Deleted :
          /\ \A password \in Passwords, now \in Times :
                /\ authenticate_user(users, users[i].email, password, now).user = NoUser
                /\ authenticate_user(users, users[i].email, password, now).db = users
          /\ \A token \in TokensOf(i) :
                get_current_user(users, verify_token(tokens, token)).raised = 401
    /\ \A i \in Deleted :
          /\ user_response # NoResponse
          /\ (/\ user_response.route = "POST /login"
              /\ user_response.input.email = users[i].email)
                => user_response.status = 401
          /\ (/\ user_response.route = "GET /me"
              /\ user_response.input \in TokensOf(i))
                => user_response.status = 401

\* A user who had logged in with the correct password is deleted and then asks
\* /me with the token of that login: 401.
C25_Witness ==
    /\ user_response.status = 401
    /\ user_response.route = "GET /me"
    /\ \E i \in Deleted :
          /\ user_response.input \in TokensOf(i)
          /\ users[i].login_count > 0
          /\ \E password \in Passwords :
                verify_password(password, users[i].password_hash)
-----------------------------------------------------------------------------
(* Permissions *)

s_colon == <<":">>

s_all == <<"a", "l", "l">>

\* Permissions.ADMIN_ALL
p_admin_all == <<"a", "d", "m", "i", "n", ":", "a", "l", "l">>

\* Permissions.READ_USERS
p_read_users == <<"r", "e", "a", "d", ":", "u", "s", "e", "r", "s">>

\* Permissions.WRITE_USERS
p_write_users == <<"w", "r", "i", "t", "e", ":", "u", "s", "e", "r", "s">>

\* Permissions.READ_COLLEGES
p_read_colleges == <<"r", "e", "a", "d", ":", "c", "o", "l", "l", "e", "g", "e", "s">>

p_read_all == <<"r", "e", "a", "d", ":", "a", "l", "l">>

p_all_users == <<"a", "l", "l", ":", "u", "s", "e", "r", "s">>

\* a permission name that is not of the form action:resource
p_read == <<"r", "e", "a", "d">>

\* s.split(":", 1): the parts before and after the first colon; one part, s
\* itself, when s holds no colon
split_colon(s) ==
    IF \E i \in 1..Len(s) : s[i] = ":"
    THEN LET first == CHOOSE i \in 1..Len(s) :
                          s[i] = ":" /\ \A j \in 1..(i - 1) : s[j] # ":"
         IN <<SubSeq(s, 1, first - 1), SubSeq(s, first + 1, Len(s))>>
    ELSE <<s>>

\* x in xs, for a list xs
InList(x, xs) == \E i \in 1..Len(xs) : xs[i] = x

\* What a call leaves through: a return value, or an exception.
Returns(value) == [raised |-> "None", value |-> value]

Raises(exc) == [raised |-> exc, value |-> FALSE]

\* has_permission whose loop looks for 'admin:all' only
has_permission_loop_admin_only(user_permissions, required_permission, k) ==
    IF k > Len(user_permissions) THEN Returns(FALSE)
    ELSE Returns(InList(p_admin_all, user_permissions))

\* PermissionChecker.has_permission: the loop over user_permissions, from its
\* k-th element on
RECURSIVE has_permission_loop(_, _, _)
has_permission_loop(user_permissions, required_permission, k) ==
    IF k > Len(user_permissions) THEN Returns(FALSE)
    ELSE IF user_permissions[k] = p_admin_all THEN Returns(TRUE)
    ELSE IF Len(split_colon(required_permission)) # 2 THEN Raises("ValueError")
    ELSE LET action == split_colon(required_permission)[1]
             resource == split_colon(required_permission)[2]
         IN IF InList(action \o s_colon \o s_all, user_permissions) THEN Returns(TRUE)
            ELSE IF InList(s_all \o s_colon \o resource, user_permissions) THEN Returns(TRUE)
            ELSE has_permission_loop(user_permissions, required_permission, k + 1)

\* PermissionChecker.has_permission
has_permission(user_permissions, required_permission) ==
    IF InList(required_permission, user_permissions) THEN Returns(TRUE)
    ELSE has_permission_loop(user_permissions, required_permission, 1)

\* PermissionChecker.has_role
has_role(user_roles, required_role) == required_role \in user_roles

\* The length of the permission lists of the model.
MaxPermissions == 2

\* The permissions a user of the model can hold.
HeldPermissions ==
    {p_admin_all, p_read_users, p_write_users, p_read_colleges, p_read_all, p_all_users}

\* The permissions a route of the model requires.
RequiredPermissions == {p_read_users, p_write_users, p_read_colleges, p_read}

PermissionLists ==
    UNION {[1..n -> HeldPermissions] : n \in 0..MaxPermissions}

\* A caller asks has_permission.
check_permission(user_permissions, required_permission) ==
    /\ remembered' = [op |-> "has_permission",
                      arg |-> <<user_permissions, required_permission>>,
                      ret |-> has_permission(user_permissions, required_permission)]
    /\ UNCHANGED <<normalizer, threads>>
    /\ UNCHANGED <<query_vars, ranked_colleges, available_branches>>
    /\ UNCHANGED <<user_vars, ingest_vars, auth_vars>>

CheckPermission ==
    \E user_permissions \in PermissionLists, required_permission \in RequiredPermissions :
        check_permission(user_permissions, required_permission)

SpecPermissions == Init /\ [][CheckPermission]_vars

\* The required permission is of the form action:resource.
ActionResource(required_permission) ==
    \E i \in 2..(Len(required_permission) - 1) :
        /\ required_permission[i] = ":"
        /\ \A j \in 1..(i - 1) : required_permission[j] # ":"

\* What the claim lets a held permission be for a required one to be granted:
\* the required permission itself, 'admin:all', '<action>:all' or
\* 'all:<resource>'.
Grants(permission, required_permission) ==
    \/ permission = required_permission
    \/ permission = p_admin_all
    \/ \E i \in 1..Len(required_permission) :
          /\ required_permission[i] = ":"
          /\ \A j \in 1..(i - 1) : required_permission[j] # ":"
          /\ \/ permission = SubSeq(required_permission, 1, i) \o s_all
             \/ permission = s_all \o SubSeq(required_permission, i, Len(required_permission))

\* C27: for a required permission action:resource has_permission returns true
\* exactly when the list holds the permission itself, 'admin:all',
\* 'action:all' or 'all:resource', and false otherwise; false for the empty
\* list.
C27_HasPermission ==
    (/\ remembered.op = "has_permission"
     /\ ActionResource(remembered.arg[2]))
       => /\ remembered.ret.raised = "None"
          /\ remembered.ret.value
               <=> \E i \in 1..Len(remembered.arg[1]) :
                      Grants(remembered.arg[1][i], remembered.arg[2])
          /\ remembered.arg[1] = <<>> => ~remembered.ret.value

\* 'read:users' is granted by a list that holds only 'all:users' besides an
\* unrelated permission.
C27_Witness ==
    /\ remembered.op = "has_permission"
    /\ remembered.arg = <<<<p_read_colleges, p_all_users>>, p_read_users>>
    /\ remembered.ret = Returns(TRUE)
-----------------------------------------------------------------------------
(* Roles: what a role grants, and delete_role *)

\* A row of roles with the names of its permissions (role.permissions).
RoleRow(id, name, permissions) ==
    [id |-> id, name |-> name, is_active |-> TRUE, permissions |-> permissions]

\* The roles init_roles creates that the model keeps, in the order of the
\* script, each with permissions of its list.
default_roles_of_script ==
    <<RoleRow(1, "super_admin", {p_admin_all}),
      RoleRow(2, "moderator", {p_read_colleges, p_read_users}),
      RoleRow(3, "user", {p_read_colleges})>>

\* user.roles: the rows of roles the association table gives the user
roles_of(role_rows, user) == {role_rows[i] : i \in user.roles}

\* [role.name for role in current_user.roles if role.is_active]
user_roles(role_rows, user) ==
    ActiveRoleNames([roles |-> roles_of(role_rows, user)])

\* get_user_permissions without the test of role.is_active
get_user_permissions_of_every_role(db, role_rows, user_id) ==
    IF UserCRUD_get_user(db, user_id) = NoUser THEN {}
    ELSE UNION {role.permissions : role \in roles_of(role_rows, UserCRUD_get_user(db, user_id))}

\* UserCRUD.get_user_permissions: the set the function collects; the list it
\* returns holds the elements of the set in some order.
get_user_permissions(db, role_rows, user_id) ==
    IF UserCRUD_get_user(db, user_id) = NoUser THEN {}
    ELSE UNION {role.permissions :
                   role \in {r \in roles_of(role_rows, UserCRUD_get_user(db, user_id)) :
                                r.is_active}}

\* RoleCRUD.delete_role: what it raises and the roles table it leaves.
RoleCRUD_delete_role(role_rows, role_id) ==
    IF role_id \notin DOMAIN role_rows THEN [raised |-> 404, role_rows |-> role_rows]
    ELSE [raised |-> 0, role_rows |-> [role_rows EXCEPT ![role_id].is_active = FALSE]]

\* UserCRUD.assign_role_to_user: what it returns and the users table it leaves.
assign_role_to_user(db, role_rows, user_id, role_id) ==
    IF UserCRUD_get_user(db, user_id) = NoUser \/ role_id \notin DOMAIN role_rows
    THEN [returned |-> FALSE, db |-> db]
    ELSE [returned |-> TRUE, db |-> [db EXCEPT ![user_id].roles = @ \cup {role_id}]]

\* permission_checker of require_permission(required_permission): the status
\* of a route that depends on it, for the list get_user_permissions returned.
permission_checker(db, role_rows, sub, user_permissions, required_permission) ==
    IF get_current_user(db, sub).raised # 0 THEN get_current_user(db, sub).raised
    ELSE IF has_permission(user_permissions, required_permission).raised # "None" THEN 500
    ELSE IF ~has_permission(user_permissions, required_permission).value THEN 403
    ELSE 200

\* role_checker of require_role(required_role)
role_checker(db, role_rows, sub, required_role) ==
    IF get_current_user(db, sub).raised # 0 THEN get_current_user(db, sub).raised
    ELSE IF ~has_role(user_roles(role_rows, get_current_user(db, sub).user), required_role)
    THEN 403
    ELSE 200

\* admin_checker of require_admin()
admin_checker(db, role_rows, sub) ==
    IF get_current_user(db, sub).raised # 0 THEN get_current_user(db, sub).raised
    ELSE IF ~is_admin(user_roles(role_rows, get_current_user(db, sub).user)) THEN 403
    ELSE 200

\* python -m app.init_auth_db: init_roles on an empty table
init_roles ==
    /\ role_table = <<>>
    /\ role_table' = default_roles_of_script
    /\ user_response' = Answered_account("init_roles", <<>>, 200, NoUser)
    /\ UNCHANGED <<users, tokens>>
    /\ UNCHANGED <<query_vars, ranked_colleges, available_branches, normalizer_vars>>
    /\ UNCHANGED ingest_vars

\* POST /users/{user_id}/roles/{role_id}, asked by an admin
assign_role(user_id, role_id) ==
    /\ users' = assign_role_to_user(users, role_table, user_id, role_id).db
    /\ user_response' =
         Answered_account("assign_role", <<user_id, role_id>>,
                          IF assign_role_to_user(users, role_table, user_id, role_id).returned
                          THEN 200 ELSE 404, NoUser)
    /\ UNCHANGED <<query_vars, ranked_colleges, available_branches, normalizer_vars>>
    /\ UNCHANGED <<ingest_vars, auth_vars>>

\* DELETE /roles/{role_id}, asked by an admin
delete_role(role_id) ==
    /\ role_table' = RoleCRUD_delete_role(role_table, role_id).role_rows
    /\ user_response' =
         Answered_account("delete_role", role_id,
                          IF RoleCRUD_delete_role(role_table, role_id).raised = 0 THEN 200
                          ELSE RoleCRUD_delete_role(role_table, role_id).raised, NoUser)
    /\ UNCHANGED <<users, tokens>>
    /\ UNCHANGED <<query_vars, ranked_colleges, available_branches, normalizer_vars>>
    /\ UNCHANGED ingest_vars

\* A route that depends on require_permission(required_permission)
require_permission(sub, required_permission) ==
    /\ \E user_permissions \in ListOfSet(get_user_permissions(users, role_table, sub)) :
          user_response' =
            Answered_account("require_permission",
                             [sub |-> sub, required |-> required_permission],
                             permission_checker(users, role_table, sub, user_permissions,
                                                required_permission),
                             NoUser)
    /\ UNCHANGED users
    /\ UNCHANGED <<query_vars, ranked_colleges, available_branches, normalizer_vars>>
    /\ UNCHANGED <<ingest_vars, auth_vars>>

\* A route that depends on require_role(required_role)
require_role(sub, required_role) ==
    /\ user_response' =
         Answered_account("require_role", [sub |-> sub, required |-> required_role],
                          role_checker(users, role_table, sub, required_role), NoUser)
    /\ UNCHANGED users
    /\ UNCHANGED <<query_vars, ranked_colleges, available_branches, normalizer_vars>>
    /\ UNCHANGED <<ingest_vars, auth_vars>>

\* A route that depends on require_admin()
require_admin(sub) ==
    /\ user_response' =
         Answered_account("require_admin", [sub |-> sub],
                          admin_checker(users, role_table, sub), NoUser)
    /\ UNCHANGED users
    /\ UNCHANGED <<query_vars, ranked_colleges, available_branches, normalizer_vars>>
    /\ UNCHANGED <<ingest_vars, auth_vars>>

\* The ids of users and of roles a request names; the tables may hold fewer.
AccountIds == 1..Cardinality(Registrations)

RoleIds == 1..Len(default_roles_of_script)

RoleNames == {default_roles_of_script[i].name : i \in RoleIds}

AssignRole == \E user_id \in AccountIds, role_id \in RoleIds : assign_role(user_id, role_id)

DeleteRole == \E role_id \in RoleIds : delete_role(role_id)

RequirePermission ==
    \E sub \in AccountIds, required_permission \in {p_read_users, p_read_colleges} :
        require_permission(sub, required_permission)

RequireRole == \E sub \in AccountIds, required_role \in RoleNames : require_role(sub, required_role)

RequireAdmin == \E sub \in AccountIds : require_admin(sub)

NextRoles ==
    init_roles \/ RegisterUser \/ AssignRole \/ DeleteRole \/ RequirePermission
        \/ RequireRole \/ RequireAdmin

SpecRoles == Init /\ [][NextRoles]_vars

\* The roles of a user that would grant the required permission.
SourcesOf(u, required_permission) ==
    {r \in users[u].roles :
        \E permission \in role_table[r].permissions : Grants(permission, required_permission)}

\* The roles of a user with one of the names.
NamedRolesOf(u, names) == {r \in users[u].roles : role_table[r].name \in names}

\* All roles of the set are inactive, and there is one.
OnlyInactive(held) == held # {} /\ \A r \in held : ~role_table[r].is_active

\* The answered request is of the route, asked by a registered user.
AnsweredTo(route) ==
    /\ user_response # NoResponse
    /\ user_response.route = route
    /\ user_response.input.sub \in DOMAIN users

\* C26: a role delete_role has set inactive grants nothing.  get_user_permissions
\* holds no permission that only inactive roles of the user carry;
\* require_permission answers 403 when every role of the user that would grant
\* the required permission is inactive; require_role and require_admin answer
\* 403 when every role of the user with the required name is inactive.
C26_InactiveRoleGrantsNothing ==
    /\ \A u \in DOMAIN users, r \in DOMAIN role_table :
          (r \in users[u].roles /\ ~role_table[r].is_active)
             => \A permission \in role_table[r].permissions :
                   permission \in get_user_permissions(users, role_table, u)
                      => \E other \in users[u].roles :
                            /\ role_table[other].is_active
                            /\ permission \in role_table[other].permissions
    /\ (/\ AnsweredTo("require_permission")
        /\ OnlyInactive(SourcesOf(user_response.input.sub, user_response.input.required)))
          => user_response.status = 403
    /\ (/\ AnsweredTo("require_role")
        /\ OnlyInactive(NamedRolesOf(user_response.input.sub, {user_response.input.required})))
          => user_response.status = 403
    /\ (/\ AnsweredTo("require_admin")
        /\ OnlyInactive(NamedRolesOf(user_response.input.sub, {"admin", "super_admin"})))
          => user_response.status = 403

\* A user holds the roles user and super_admin, super_admin is deleted, and a
\* route that requires read:users refuses the user: only 'admin:all' of
\* super_admin would have granted it.
C26_Witness ==
    /\ AnsweredTo("require_permission")
    /\ user_response.input.required = p_read_users
    /\ user_response.status = 403
    /\ users[user_response.input.sub].roles = {1, 3}
    /\ ~role_table[1].is_active
    /\ role_table[3].is_active
-----------------------------------------------------------------------------
(* Concurrent requests on the users table *)

\* The unique indexes of users.email and users.phone: the commit that would
\* store row at position i is refused when another row has its email or its
\* phone (NULL phones are never equal).
unique_violation_without_indexes(db, i, row) == FALSE

unique_violation(db, i, row) ==
    \E j \in DOMAIN db \ {i} :
        \/ db[j].email = row.email
        \/ row.phone # NullPhone /\ db[j].phone = row.phone

\* The frame of a call that has left, by return or by an HTTPException: at is
\* the statement it left from, wrote says whether its commit changed the users
\* table.
LeftFrame(op, at, code, wrote) ==
    [pc |-> "returned", op |-> op, at |-> at, raised |-> code, wrote |-> wrote]

\* A request thread enters UserCRUD.create_user(db, user).
enter_create_user(t, user) ==
    /\ Idle(t)
    /\ Len(users) < MaxUsers
    /\ threads' = [threads EXCEPT ![t] = [pc |-> "get_user_by_email", op |-> "create_user",
                                          arg |-> user]]
    /\ UNCHANGED <<normalizer, remembered, user_vars>>
    /\ UNCHANGED <<query_vars, ranked_colleges, available_branches>>
    /\ UNCHANGED <<ingest_vars, auth_vars>>

\* if UserCRUD.get_user_by_email(db, user.email): raise HTTPException(400)
create_user_checks_email(t) ==
    /\ threads[t].pc = "get_user_by_email"
    /\ threads' = [threads EXCEPT ![t] =
                      IF get_user_by_email(users, threads[t].arg.email) # NoUser
                      THEN LeftFrame("create_user", "get_user_by_email", 400, FALSE)
                      ELSE [@ EXCEPT !.pc = "get_user_by_phone"]]
    /\ UNCHANGED <<normalizer, remembered, user_vars>>
    /\ UNCHANGED <<query_vars, ranked_colleges, available_branches>>
    /\ UNCHANGED <<ingest_vars, auth_vars>>

\* if user.phone and UserCRUD.get_user_by_phone(db, user.phone): raise HTTPException(400)
create_user_checks_phone(t) ==
    /\ threads[t].pc = "get_user_by_phone"
    /\ threads' = [threads EXCEPT ![t] =
                      IF /\ threads[t].arg.phone # NullPhone
                         /\ get_user_by_phone(users, threads[t].arg.phone) # NoUser
                      THEN LeftFrame("create_user", "get_user_by_phone", 400, FALSE)
                      ELSE [@ EXCEPT !.pc = "commit"]]
    /\ UNCHANGED <<normalizer, remembered, user_vars>>
    /\ UNCHANGED <<query_vars, ranked_colleges, available_branches>>
    /\ UNCHANGED <<ingest_vars, auth_vars>>

\* db.add(db_user); db.commit(): the row is stored, or the database refuses it
\* with IntegrityError, the session is rolled back and HTTPException(400) raised
create_user_commits(t) ==
    LET db_user == Account(Len(users) + 1, threads[t].arg.email, threads[t].arg.phone,
                           threads[t].arg.password, default_roles(role_table))
        refused == unique_violation(users, Len(users) + 1, db_user)
    IN /\ threads[t].pc = "commit"
       /\ threads[t].op = "create_user"
       /\ users' = IF refused THEN users ELSE Append(users, db_user)
       /\ threads' = [threads EXCEPT ![t] =
                         LeftFrame("create_user", "commit",
                                   IF refused THEN 400 ELSE 0, ~refused)]
       /\ UNCHANGED <<normalizer, remembered, user_response>>
       /\ UNCHANGED <<query_vars, ranked_colleges, available_branches>>
       /\ UNCHANGED <<ingest_vars, auth_vars>>

\* A request thread enters UserCRUD.update_user(db, user_id, user_update) and
\* loads the row: HTTPException(404) when there is none.
enter_update_user(t, user_id, user_update) ==
    /\ Idle(t)
    /\ threads' = [threads EXCEPT ![t] =
                      IF UserCRUD_get_user(users, user_id) = NoUser
                      THEN LeftFrame("update_user", "get_user", 404, FALSE)
                      ELSE [pc |-> "commit", op |-> "update_user",
                            arg |-> <<user_id, user_update>>]]
    /\ UNCHANGED <<normalizer, remembered, user_vars>>
    /\ UNCHANGED <<query_vars, ranked_colleges, available_branches>>
    /\ UNCHANGED <<ingest_vars, auth_vars>>

\* setattr(db_user, field, value) for the fields of the update; db.commit():
\* the UPDATE of these columns is stored, or refused with IntegrityError,
\* rolled back and answered with HTTPException(400)
update_user_commits(t) ==
    LET user_id == threads[t].arg[1]
        written == UserCRUD_update_user(users, user_id, threads[t].arg[2])
        refused == unique_violation(users, user_id, written[user_id])
    IN /\ threads[t].pc = "commit"
       /\ threads[t].op = "update_user"
       /\ users' = IF refused THEN users ELSE written
       /\ threads' = [threads EXCEPT ![t] =
                         LeftFrame("update_user", "commit",
                                   IF refused THEN 400 ELSE 0, ~refused /\ written # users)]
       /\ UNCHANGED <<normalizer, remembered, user_response>>
       /\ UNCHANGED <<query_vars, ranked_colleges, available_branches>>
       /\ UNCHANGED <<ingest_vars, auth_vars>>

\* The request is answered and the thread takes the next one.
request_answered(t) ==
    /\ threads[t].pc = "returned"
    /\ threads' = [threads EXCEPT ![t] = IdleFrame]
    /\ UNCHANGED <<normalizer, remembered, user_vars>>
    /\ UNCHANGED <<query_vars, ranked_colleges, available_branches>>
    /\ UNCHANGED <<ingest_vars, auth_vars>>

ph_1 == "9800000001"

\* The users the requests of the model create.
NewUsers ==
    {[email |-> e_asha, phone |-> ph_1, password |-> "password-a"],
     [email |-> e_ravi, phone |-> ph_1, password |-> "password-r"],
     [email |-> e_ravi, phone |-> NullPhone, password |-> "password-r"]}

\* The updates the requests of the model ask for.
UserChanges == {[email |-> e_asha], [phone |-> ph_1], [phone |-> NullPhone]}

\* The request threads are in no call; the users table is empty.
InitRequests ==
    /\ threads = [t \in Threads |-> IdleFrame]
    /\ normalizer = None
    /\ remembered = NoCall
    /\ cutoffs = EmptyBag /\ NoAnswer /\ NoBranchListing /\ NoUsers /\ NoIngestion /\ NoAuth

EnterCreateUser == \E t \in Threads, user \in NewUsers : enter_create_user(t, user)

EnterUpdateUser ==
    \E t \in Threads, user_id \in UserIds, user_update \in UserChanges :
        enter_update_user(t, user_id, user_update)

CreateUserSteps ==
    \E t \in Threads :
        create_user_checks_email(t) \/ create_user_checks_phone(t) \/ create_user_commits(t)

UpdateUserCommits == \E t \in Threads : update_user_commits(t)

RequestAnswered == \E t \in Threads : request_answered(t)

NextRegistrations ==
    EnterCreateUser \/ EnterUpdateUser \/ CreateUserSteps \/ UpdateUserCommits
        \/ RequestAnswered

SpecRegistrations == InitRequests /\ [][NextRegistrations]_vars

\* No two rows of users share an email or a phone that is not NULL.
UniqueEmailAndPhone ==
    \A i, j \in DOMAIN users :
        i # j => /\ users[i].email # users[j].email
                 /\ users[i].phone = NullPhone \/ users[i].phone # users[j].phone

\* C28: whatever create_user and update_user calls have run, one after the
\* other or interleaved, no two rows of users share an email or a non-null
\* phone; a call that left with 400 has not changed the users table.
C28_UniqueEmailAndPhone ==
    /\ UniqueEmailAndPhone
    /\ \A t \in Threads :
          (threads[t].pc = "returned" /\ threads[t].raised = 400) => ~threads[t].wrote

\* Two calls of create_user have both passed their checks on the empty table;
\* the first commit stored its row, the second was refused by a unique index
\* and left with 400.
C28_Witness ==
    \E t, u \in Threads :
        /\ t # u
        /\ threads[t].pc = "returned" /\ threads[t].op = "create_user"
        /\ threads[u].pc = "returned" /\ threads[u].op = "create_user"
        /\ threads[t].raised = 0
        /\ threads[u].raised = 400
        /\ threads[u].at = "commit"
        /\ Len(users) = 1
-----------------------------------------------------------------------------
(* Concurrent logins *)

\* The calls of authenticate_user that have returned a user, by user id.
NoLogins == [op |-> "authenticate_user", successes |-> [i \in AccountIds |-> 0]]

\* A request thread enters UserCRUD.authenticate_user(db, email, password).
enter_authenticate_user(t, email, password) ==
    /\ Idle(t)
    /\ \A i \in AccountIds : remembered.successes[i] < MaxLogins
    /\ threads' = [threads EXCEPT ![t] = [pc |-> "get_user_by_email", op |-> "authenticate_user",
                                          arg |-> <<email, password>>]]
    /\ UNCHANGED <<normalizer, remembered, user_vars>>
    /\ UNCHANGED <<query_vars, ranked_colleges, available_branches>>
    /\ UNCHANGED <<ingest_vars, auth_vars>>

\* user = get_user_by_email(db, email): the session loads the row.  None is
\* returned for no row, an inactive user or a wrong password; otherwise
\* user.login_count += 1 is computed on the loaded row.
authenticate_user_loads(t) ==
    LET user == get_user_by_email(users, threads[t].arg[1])
    IN /\ threads[t].pc = "get_user_by_email"
       /\ threads[t].op = "authenticate_user"
       /\ threads' = [threads EXCEPT ![t] =
                         IF user = NoUser THEN LeftFrame("authenticate_user", "not user", 401, FALSE)
                         ELSE IF ~user.is_active
                         THEN LeftFrame("authenticate_user", "not user.is_active", 401, FALSE)
                         ELSE IF ~verify_password(threads[t].arg[2], user.password_hash)
                         THEN LeftFrame("authenticate_user", "verify_password", 401, FALSE)
                         ELSE [pc |-> "commit", op |-> "authenticate_user",
                               user |-> [user EXCEPT !.login_count = @ + 1]]]
       /\ UNCHANGED <<normalizer, remembered, user_vars>>
       /\ UNCHANGED <<query_vars, ranked_colleges, available_branches>>
       /\ UNCHANGED <<ingest_vars, auth_vars>>

\* user.last_login = datetime.utcnow(); db.commit(): the UPDATE sets the two
\* columns of the row to the values of the loaded object; return user
authenticate_user_commits(t, now) ==
    LET user == threads[t].user
    IN /\ threads[t].pc = "commit"
       /\ threads[t].op = "authenticate_user"
       /\ users' = [users EXCEPT ![user.id].login_count = user.login_count,
                                 ![user.id].last_login = now]
       /\ remembered' = [remembered EXCEPT !.successes[user.id] = @ + 1]
       /\ threads' = [threads EXCEPT ![t] = LeftFrame("authenticate_user", "return user", 200, TRUE)]
       /\ UNCHANGED <<normalizer, user_response>>
       /\ UNCHANGED <<query_vars, ranked_colleges, available_branches>>
       /\ UNCHANGED <<ingest_vars, auth_vars>>

\* The request threads are in no call, the users table is empty and nobody
\* has logged in.
InitLogins ==
    /\ threads = [t \in Threads |-> IdleFrame]
    /\ normalizer = None
    /\ remembered = NoLogins
    /\ cutoffs = EmptyBag /\ NoAnswer /\ NoBranchListing /\ NoUsers /\ NoIngestion /\ NoAuth

\* The one user of the model of the logins registers; the other email stays
\* unknown.
RegisterOneUser ==
    \E user \in {r \in Registrations : r.email = e_asha} : register_user(user)

EnterAuthenticateUser ==
    \E t \in Threads, email \in Emails, password \in Passwords :
        enter_authenticate_user(t, email, password)

AuthenticateUserLoads == \E t \in Threads : authenticate_user_loads(t)

AuthenticateUserCommits == \E t \in Threads, now \in Times : authenticate_user_commits(t, now)

NextLogins ==
    RegisterOneUser \/ DeleteUser \/ EnterAuthenticateUser \/ AuthenticateUserLoads
        \/ AuthenticateUserCommits \/ RequestAnswered

SpecLogins == InitLogins /\ [][NextLogins]_vars

\* C29: the login_count of every user is the number of authenticate_user
\* calls that have returned that user, however the calls interleave, and a
\* call that returned None has written nothing.
C29_LoginCountCountsSuccesses ==
    /\ \A i \in DOMAIN users : users[i].login_count = remembered.successes[i]
    /\ \A t \in Threads :
          (threads[t].pc = "returned" /\ threads[t].raised = 401) => ~threads[t].wrote
====
